---- MODULE Spec2Model ----
(***************************************************************************)
(* Model of the 2D renderer of LD46-Lighthouse-Keeper                      *)
(* (gfx-lib/src/renderer.rs, gfx-lib/src/mesh.rs): draw-request keys,      *)
(* batching (process_commands), the frame loop (render) with two frames    *)
(* in flight, and texture registration (create_gpu_texture).               *)
(***************************************************************************)
EXTENDS Integers, Sequences, FiniteSets, TLC

(***************************************************************************)
(* Fixed values of the program.                                            *)
(***************************************************************************)
MAX_SPRITES == 4096
MAX_BATCH_VERTICES == MAX_SPRITES * 4
MAX_BATCH_INDICES == MAX_SPRITES * 6
MAX_DESCRIPTOR_SETS == 512
FramesInFlight == 2
SizeOfVertex == 36
SizeOfIndex == 4
SizeOfUbo == 192
ImageStride == 4
Opaque == 0
Transparent == 1

(***************************************************************************)
(* Bounds of the model.                                                    *)
(***************************************************************************)
MaxCmds == 2
MaxBatchFrames == 2
MaxFrames == 3
MaxTexCreates == 2
MaxCapacityFrames == 3
MaxUboSize == 5
MaxUploads == 4
MaxResizeFrames == 2
MaxMeshQuads == 2

\* render calls in the runs with every renderer operation
MaxLifetimeFrames == 2

\* iterations of the window loop
MaxIterations == 3

\* render calls before the renderer is dropped
MaxTeardownFrames == 1

\* update_buffer calls in the runs of update_buffer on its own
MaxMapCalls == 2
MaxMemoryTypes == 3

\* entity indices in the runs of ClickableSystem
NumClickables == 2

\* entities that get the same index, one after the other
MaxGenerations == 2
MaxTimeEvents == 2
MaxDays == 3

\* time units in one tick of the window loop (target_dt)
TimeUnitsPerTick == 3

NONE == "none"

\* No extent (Option::None), and the swapchain before it is configured.
NoExtent == <<>>

Unconfigured == [dimensions |-> NoExtent, extent |-> NoExtent]

\* No batch is open (the Option<&mut RenderBatch> of process_commands is None).
NoBatch == <<>>

(***************************************************************************)
(* f32 values.  Positions of the model are integers (small ones, which an  *)
(* f32 holds exactly).  A texture coordinate is an f32 that is not         *)
(* negative: <<m, e>> stands for m * 2^e with m odd and below 2^24, <<0,   *)
(* 0>> for 0.0.  A division and an addition round to the nearest f32, ties *)
(* to even, as IEEE arithmetic does; a division by zero gives infinity,    *)
(* or for 0/0 a NaN.  The exponents of the model stay far from the ends of *)
(* the f32 range.                                                          *)
(***************************************************************************)
FInf == <<0, 1>>

FNaN == <<0, -1>>

FZero == <<0, 0>>

FOne == <<1, 0>>

\* m * 2^e with the mantissa brought into [2^23, 2^24), for m > 0.
RECURSIVE FFull(_, _)
FFull(m, e) == IF m >= 2 ^ 23 THEN <<m, e>> ELSE FFull(2 * m, e - 1)

\* m * 2^e with an odd mantissa.
RECURSIVE FOdd(_, _)
FOdd(m, e) ==
    IF m = 0 THEN FZero
    ELSE IF m % 2 = 1 THEN <<m, e>> ELSE FOdd(m \div 2, e + 1)

\* s * 2^e rounded to 24 bits, to the nearest and ties to even: s has 27
\* bits, the last of which says that bits were dropped below it.
FRound(s, e) ==
    LET m == s \div 8
        rest == s % 8
    IN  FOdd(IF rest > 4 \/ (rest = 4 /\ m % 2 = 1) THEN m + 1 ELSE m, e + 3)

\* s with its last bit set when bits were dropped below it.
Sticky(s, inexact) == IF inexact /\ s % 2 = 0 THEN s + 1 ELSE s

\* n more bits of the quotient q with remainder rest of a division by b.
RECURSIVE LongDiv(_, _, _, _)
LongDiv(q, rest, b, n) ==
    IF n = 0 THEN <<q, rest>>
    ELSE IF 2 * rest >= b
         THEN LongDiv(2 * q + 1, 2 * rest - b, b, n - 1)
         ELSE LongDiv(2 * q, 2 * rest, b, n - 1)

\* a as f32 / b as f32, for unsigned integers a and b below 2^24
FDiv(a, b) ==
    IF b = 0 THEN (IF a = 0 THEN FNaN ELSE FInf)
    ELSE IF a = 0 THEN FZero
    ELSE LET x == FFull(a, 0)
             y == FFull(b, 0)
             k == IF x[1] >= y[1] THEN 26 ELSE 27
             d == LongDiv(x[1] \div y[1], x[1] % y[1], y[1], k)
         IN  FRound(Sticky(d[1], d[2] # 0), x[2] - y[2] - k)

\* x + y for values in full form, the exponent of x the larger one.
FAddOrdered(x, y) ==
    LET d == x[2] - y[2]
    IN  IF d > 26 THEN FOdd(x[1], x[2])
        ELSE LET s == Sticky(x[1] * 8 + ((y[1] * 8) \div (2 ^ d)),
                             ((y[1] * 8) % (2 ^ d)) # 0)
             IN  IF s >= 2 ^ 27
                 THEN FRound(Sticky(s \div 2, s % 2 = 1), x[2] - 2)
                 ELSE FRound(s, x[2] - 3)

\* a + b in f32
FAdd(a, b) ==
    IF a = FNaN \/ b = FNaN THEN FNaN
    ELSE IF a = FInf \/ b = FInf THEN FInf
    ELSE IF a = FZero THEN b
    ELSE IF b = FZero THEN a
    ELSE LET x == FFull(a[1], a[2])
             y == FFull(b[1], b[2])
         IN  IF x[2] >= y[2] THEN FAddOrdered(x, y) ELSE FAddOrdered(y, x)

(***************************************************************************)
(* RenderKey = u64.  A u64 is kept as its four 16-bit limbs, the most      *)
(* significant first, so that the order of the tuples is the order of the  *)
(* integers; shifts and sums are computed on the limbs, modulo 2^64.       *)
(***************************************************************************)
Limb == 65536

\* (v as u64) << n, for a v below 2^16
Shl64(v, n) ==
    LET x == v * (2 ^ (n % 16))
        q == n \div 16
    IN  IF q = 3 THEN <<x % Limb, 0, 0, 0>>
        ELSE IF q = 2 THEN <<x \div Limb, x % Limb, 0, 0>>
        ELSE IF q = 1 THEN <<0, x \div Limb, x % Limb, 0>>
        ELSE <<0, 0, x \div Limb, x % Limb>>

\* a + b + c + d on u64
Sum64(a, b, c, d) ==
    LET s4 == a[4] + b[4] + c[4] + d[4]
        s3 == a[3] + b[3] + c[3] + d[3] + (s4 \div Limb)
        s2 == a[2] + b[2] + c[2] + d[2] + (s3 \div Limb)
        s1 == a[1] + b[1] + c[1] + d[1] + (s2 \div Limb)
    IN  <<s1 % Limb, s2 % Limb, s3 % Limb, s4 % Limb>>

\* a < b on u64
Lt64(a, b) ==
    \E i \in 1 .. 4 :
        /\ a[i] < b[i]
        /\ \A j \in 1 .. (i - 1) : a[j] = b[j]

(***************************************************************************)
(* RenderBatch::gen_key and RenderCommand::key.                            *)
(***************************************************************************)
\* Variant: the layer is shifted above the transparency bit.
gen_keyLayerOnTop(transparency, layer, shader_program_id, tex_id) ==
    Sum64(Shl64(transparency, 48), Shl64(layer, 56),
          Shl64(shader_program_id, 32), Shl64(tex_id, 16))

\* Variant: the texture id is shifted onto the bits of the shader program.
gen_keyTexOnProgram(transparency, layer, shader_program_id, tex_id) ==
    Sum64(Shl64(transparency, 56), Shl64(layer, 48),
          Shl64(shader_program_id, 32), Shl64(tex_id, 32))

gen_key(transparency, layer, shader_program_id, tex_id) ==
    Sum64(Shl64(transparency, 56), Shl64(layer, 48),
          Shl64(shader_program_id, 32), Shl64(tex_id, 16))

RenderCommandKey(c) ==
    gen_key(c.transparency, c.layer, c.shader_program_id, c.tex_id)

(***************************************************************************)
(* mesh.rs: Mesh, add_quad, add_sprite.                                    *)
(***************************************************************************)
Vertex(px, py, color, u, v) ==
    [position |-> <<px, py, 0>>, color |-> color, uv |-> <<u, v>>]

EmptyMesh == [vertices |-> <<>>, indices |-> <<>>]

MeshClear(mesh) == [vertices |-> <<>>, indices |-> <<>>]

\* Variant: the indices of every quad are those of the first.
NewIndicesOfFirst(vertex_count) == <<0, 1, 2, 2, 3, 0>>

\* indices.extend_from_slice(&[vertex_count, vertex_count + 1, ..])
NewIndices(vertex_count) ==
    <<vertex_count, vertex_count + 1, vertex_count + 2,
      vertex_count + 2, vertex_count + 3, vertex_count>>

\* Variant: the texture coordinates start at the bottom left corner.
add_quadFlipped(mesh, bl, br, tl, tr, color) ==
    LET vertex_count == Len(mesh.vertices)
        new_vertices ==
            << Vertex(tl[1], tl[2], color, FZero, FOne),
               Vertex(tr[1], tr[2], color, FOne, FOne),
               Vertex(br[1], br[2], color, FOne, FZero),
               Vertex(bl[1], bl[2], color, FZero, FZero) >>
    IN  [vertices |-> mesh.vertices \o new_vertices,
         indices |-> mesh.indices \o NewIndices(vertex_count)]

add_quad(mesh, bl, br, tl, tr, color) ==
    LET vertex_count == Len(mesh.vertices)
        new_vertices ==
            << Vertex(tl[1], tl[2], color, FZero, FZero),
               Vertex(tr[1], tr[2], color, FOne, FZero),
               Vertex(br[1], br[2], color, FOne, FOne),
               Vertex(bl[1], bl[2], color, FZero, FOne) >>
    IN  [vertices |-> mesh.vertices \o new_vertices,
         indices |-> mesh.indices \o NewIndices(vertex_count)]

\* Variant: both texture coordinates are divided by the sheet's width.
add_spriteSquareSheet(mesh, x0, y0, origin, scale, color, region, sheet_w, sheet_h) ==
    LET vertex_count == Len(mesh.vertices)
        u == FDiv(region.x, sheet_w)
        v == FDiv(region.y, sheet_w)
        u_width == FDiv(region.w, sheet_w)
        v_height == FDiv(region.h, sheet_w)
        x == x0 - (origin[1] * scale[1])
        y == y0 - (origin[2] * scale[2])
        w == region.w * scale[1]
        h == region.h * scale[2]
        new_vertices ==
            << Vertex(x, y, color, u, v),
               Vertex(x + w, y, color, FAdd(u, u_width), v),
               Vertex(x + w, y + h, color, FAdd(u, u_width), FAdd(v, v_height)),
               Vertex(x, y + h, color, u, FAdd(v, v_height)) >>
    IN  [vertices |-> mesh.vertices \o new_vertices,
         indices |-> mesh.indices \o NewIndices(vertex_count)]

add_sprite(mesh, x0, y0, origin, scale, color, region, sheet_w, sheet_h) ==
    LET vertex_count == Len(mesh.vertices)
        u == FDiv(region.x, sheet_w)
        v == FDiv(region.y, sheet_h)
        u_width == FDiv(region.w, sheet_w)
        v_height == FDiv(region.h, sheet_h)
        x == x0 - (origin[1] * scale[1])
        y == y0 - (origin[2] * scale[2])
        w == region.w * scale[1]
        h == region.h * scale[2]
        new_vertices ==
            << Vertex(x, y, color, u, v),
               Vertex(x + w, y, color, FAdd(u, u_width), v),
               Vertex(x + w, y + h, color, FAdd(u, u_width), FAdd(v, v_height)),
               Vertex(x, y + h, color, u, FAdd(v, v_height)) >>
    IN  [vertices |-> mesh.vertices \o new_vertices,
         indices |-> mesh.indices \o NewIndices(vertex_count)]

(***************************************************************************)
(* State of the renderer, of the device and of the GPU.                    *)
(*   batches, textures, current_frame, frame_fences : fields of Renderer   *)
(*   desc_allocated : sets allocated from each program's descriptor pool   *)
(*   next_handle    : next device object handle (buffers, memories,        *)
(*                    images, image views, samplers)                       *)
(*   destroyed      : handles passed to a destroy_* / free_memory call     *)
(*   in_flight      : queue submissions the GPU has not finished           *)
(*   render_pc      : position of the thread that owns the renderer        *)
(*                    ("idle": no call is active, "wait": render is        *)
(*                    blocked in wait_for_fence, "copy_wait":              *)
(*                    create_gpu_texture is blocked in wait_for_fence,     *)
(*                    "wait_idle": the drop is blocked in wait_idle,       *)
(*                    "dropped": the renderer has been dropped)            *)
(*   log            : device calls of the render call that is active or    *)
(*                    was the last call made to the renderer (after        *)
(*                    another call: the buffer and swapchain calls of that *)
(*                    call, if any)                                        *)
(*   images         : contents of the live GPU images, by image handle     *)
(*   commands, cmd_keys, batch_keys : argument of the last                 *)
(*                    process_commands call, the keys its sort computed,   *)
(*                    and the key list it returned                         *)
(*   repeated       : "never" before the first process_commands call,     *)
(*                    "yes" when the last call had the same argument as    *)
(*                    the one before it, else "no"                         *)
(*   panicked       : the process has terminated with a panic              *)
(*   last_present   : result of the last present_surface call ("none"      *)
(*                    before the first)                                    *)
(*   dimensions     : Renderer.dimensions, <<width, height>>               *)
(*   viewport       : width and height of Renderer.viewport.rect           *)
(*   swapchain      : the configuration the surface's swapchain was last   *)
(*                    configured with (the dimensions asked for and the    *)
(*                    extent it got), Unconfigured before the first        *)
(*   surface_extent : the extent the surface's capabilities prescribe      *)
(*                    (current_extent), NoExtent when the surface leaves   *)
(*                    the choice to the swapchain                          *)
(*   last_resize    : the arguments of the last resize call, NoExtent      *)
(*                    before the first                                     *)
(*   free_mesh, mesh_call : a Mesh outside the renderer, and the last call *)
(*                    mesh function on it: its name, its arguments and the *)
(*                    mesh before the call                                 *)
(*   gpu_reads      : for each frame slot, the ranges <<memory, offset,    *)
(*                    length>> that the slot's unfinished submission reads *)
(*   frame_semaphores : state of each frame slot's semaphore               *)
(*   present_queue  : the presents whose semaphore wait has not returned   *)
(*                    (frame, semaphore waited on, whether an image is     *)
(*                    shown)                                               *)
(*   presented_early: an image was taken by the presentation engine while  *)
(*                    the queue submission that renders it was unfinished  *)
(*   live_framebuffers : the frames whose framebuffer exists               *)
(*   game_commands  : RenderState.commands of the game, each request with  *)
(*                    the window loop iteration it was pushed in           *)
(*   accumulator    : the window loop's accumulator, in time units         *)
(*   iteration      : number of MainEventsCleared events handled           *)
(*   texture_calls  : device calls of the create_gpu_texture call that is  *)
(*                    active or was the last one                           *)
(*   texture_copy   : the copy that the active create_gpu_texture call     *)
(*                    submitted: "submitted" or "signaled", with the       *)
(*                    texture of the call and the image the copy writes;   *)
(*                    "none" when no call is active                        *)
(*   mapped         : the memories that are mapped                         *)
(*   pure_call      : the last size or memory type computation, with its   *)
(*                    arguments and its outcome                            *)
(*   clickables     : the state of the ClickableComponent of each entity   *)
(*                    that exists, by the entity's index (none exists      *)
(*                    after GameState::new)                                *)
(*   generation     : per index, the number of entities that have had the  *)
(*                    index; the Entity at index id is                     *)
(*                    [id |-> id, gen |-> generation[id]]                  *)
(*   click_run      : the last ClickableSystem::run or                     *)
(*                    create_activity_ents call: the input of the run, the *)
(*                    states before it and the events it wrote             *)
(*   streak_events  : per entity that exists, the events written for it    *)
(*                    since the cursor was last off it or the button last  *)
(*                    up                                                   *)
(*   index_events   : per index, the events written for entities of that   *)
(*                    index since the cursor was last off the index or the *)
(*                    button last up                                       *)
(*   time           : the TimeState resource                               *)
(*   time_run       : the last run of TimeSystem: the events it read, the  *)
(*                    TimeState after each, and the events it wrote        *)
(***************************************************************************)
VARIABLES batches, textures, current_frame, frame_fences, desc_allocated,
          next_handle, destroyed, in_flight, render_pc, log, images,
          commands, cmd_keys, batch_keys, repeated, panicked, last_present,
          dimensions, viewport, swapchain, surface_extent, last_resize,
          free_mesh, mesh_call, gpu_reads,
          frame_semaphores, present_queue, presented_early, live_framebuffers,
          game_commands, accumulator, iteration,
          texture_calls, texture_copy, mapped, pure_call,
          clickables, click_run, streak_events, index_events, generation,
          time, time_run

\* The window's size and the swapchain made for it.
swap_vars == <<dimensions, viewport, swapchain, surface_extent, last_resize>>

vars == <<batches, textures, current_frame, frame_fences, desc_allocated,
          next_handle, destroyed, in_flight, render_pc, log, images,
          commands, cmd_keys, batch_keys, repeated, panicked, last_present,
          dimensions, viewport, swapchain, surface_extent, last_resize,
          free_mesh, mesh_call, gpu_reads,
          frame_semaphores, present_queue, presented_early, live_framebuffers,
          game_commands, accumulator, iteration,
          texture_calls, texture_copy, mapped, pure_call,
          clickables, click_run, streak_events, index_events, generation,
          time, time_run>>

\* The semaphores, the presentation engine and the framebuffers.
sync_vars ==
    <<frame_semaphores, present_queue, presented_early, live_framebuffers>>

\* The game's RenderState and the window loop.
game_vars == <<game_commands, accumulator, iteration>>

\* A mesh of its own and the last call made on it.
mesh_vars == <<free_mesh, mesh_call>>

\* The device calls of the last create_gpu_texture call and the copy it
\* submitted.
tex_vars == <<texture_calls, texture_copy>>

\* The memories that are mapped (update_buffer).
map_vars == <<mapped>>

\* The last computation of sizes or of a memory type, made on its own.
pure_vars == <<pure_call>>

\* The state of the parts that are modelled on their own.
\* The game's clickable entities (ClickableSystem).
click_vars == <<clickables, click_run, streak_events, index_events, generation>>

\* The game's clock (TimeSystem).
clock_vars == <<time, time_run>>

\* The state of the parts that are modelled on their own.
unit_vars == <<map_vars, pure_vars, click_vars, clock_vars>>

Slots == 0 .. (FramesInFlight - 1)

(***************************************************************************)
(* Renderer::new: the three shader programs and their descriptor bindings. *)
(***************************************************************************)
\* Variant: a fourth program is registered.
shader_programsFour ==
    [p \in {0, 1, 2, 3} |->
        IF p = 1 THEN <<"Uniform", "SampledImage", "Sampler">>
                 ELSE <<"Uniform">>]

shader_programs ==
    [p \in {0, 1, 2} |->
        IF p = 1 THEN <<"Uniform", "SampledImage", "Sampler">>
                 ELSE <<"Uniform">>]

(***************************************************************************)
(* RenderBatch.                                                            *)
(***************************************************************************)
RenderBatchNew(transparency, layer, shader_program_id, tex_info, descriptor_set, vertex_buffer, index_buffer) ==
    [transparency |-> transparency,
     layer |-> layer,
     shader_program_id |-> shader_program_id,
     tex_info |-> tex_info,
     descriptor_set |-> descriptor_set,
     descriptor_writes |-> <<>>,
     vertex_buffer |-> vertex_buffer,
     index_buffer |-> index_buffer,
     batch_mesh |-> EmptyMesh]

BatchTexId(b) == b.tex_info[1]

\* Variant: the batch's key leaves out its layer.
BatchKeyNoLayer(b) ==
    gen_key(b.transparency, 0, b.shader_program_id, BatchTexId(b))

\* RenderBatch::key
BatchKey(b) ==
    gen_key(b.transparency, b.layer, b.shader_program_id, BatchTexId(b))

\* Variant: clearing a batch also drops the writes of its descriptor set.
BatchClearRewrites(b) ==
    [b EXCEPT !.batch_mesh = MeshClear(@), !.descriptor_writes = <<>>]

\* Variant: a reused batch keeps the mesh it had.
BatchClearKeepsMesh(b) == b

BatchClear(b) == [b EXCEPT !.batch_mesh = MeshClear(@)]

process_command(b, command) ==
    LET d == command.data
    IN  IF d.kind = "Quad"
        THEN [b EXCEPT !.batch_mesh =
                 add_quad(@, d.bl, d.br, d.tl, d.tr, d.color)]
        ELSE [b EXCEPT !.batch_mesh =
                 add_sprite(@, d.x, d.y, d.pivot, d.scale, d.color, d.region,
                            b.tex_info[2], b.tex_info[3])]

(***************************************************************************)
(* create_vertex_buffer / create_index_buffer: <<buffer, memory, frame     *)
(* size in bytes>>; the buffer holds FramesInFlight frame regions.         *)
(***************************************************************************)
create_vertex_buffer(handle) ==
    <<handle, handle + 1, MAX_BATCH_VERTICES * SizeOfVertex>>

create_index_buffer(handle) ==
    <<handle, handle + 1, MAX_BATCH_INDICES * SizeOfIndex>>

\* create_uniform_buffer (called by Renderer::new, which makes the first
\* two device objects of the model): <<buffer, memory, frame size>>.
uniform_buffer == <<1, 2, SizeOfUbo>>

(***************************************************************************)
(* Renderer::write_descriptor_sets: one write per binding of the program;  *)
(* the uniform buffer is bound from offset 0 to its end, the image view    *)
(* and the sampler are those of the batch's texture, when it exists.       *)
(***************************************************************************)
write_descriptor_sets(texs, batch, shader_descriptor_bindings) ==
    LET has_tex == BatchTexId(batch) \in DOMAIN texs
        tex == texs[BatchTexId(batch)]
        WriteFor(i) ==
            LET ty == shader_descriptor_bindings[i]
            IN  IF ty = "Uniform"
                THEN <<[binding |-> i - 1, kind |-> "Buffer",
                        offset |-> 0, size |-> NONE]>>
                ELSE IF ~has_tex THEN <<>>
                ELSE IF ty = "SampledImage"
                THEN <<[binding |-> i - 1, kind |-> "Image",
                        image_view |-> tex.image_view]>>
                ELSE <<[binding |-> i - 1, kind |-> "Sampler",
                        sampler |-> tex.sampler]>>
        n == Len(shader_descriptor_bindings)
    IN  IF n = 1 THEN WriteFor(1)
        ELSE WriteFor(1) \o WriteFor(2) \o WriteFor(3)

\* pool.allocate_set(layout): the device answers with a set (TRUE) or with
\* an error.  The code keeps no count of the sets it has taken from the
\* pool; granted is the number of allocations that the device still
\* answers with a set in this process_commands call.
allocate_set(granted) == granted > 0

(***************************************************************************)
(* Renderer::create_render_batch on the walk state st                      *)
(* (batches, desc_allocated, next_handle, batch, batch_keys, panicked,     *)
(* granted, alloc_failed): st.batch becomes the key of the batch to fill.  *)
(***************************************************************************)
create_render_batch(st, texs, transparency, layer, shader_program_id, tex_id) ==
    LET key == gen_key(transparency, layer, shader_program_id, tex_id)
    IN  IF key \in DOMAIN st.batches
        THEN [st EXCEPT !.batches[key] = BatchClear(@), !.batch = key]
        ELSE IF shader_program_id \notin DOMAIN shader_programs
        THEN [st EXCEPT !.panicked = TRUE]
        ELSE IF ~allocate_set(st.granted)
        THEN [st EXCEPT !.panicked = TRUE, !.alloc_failed = TRUE]
        ELSE
        LET descriptor_set ==
                <<shader_program_id, st.desc_allocated[shader_program_id]>>
            vertex_buffer == create_vertex_buffer(st.next_handle)
            index_buffer == create_index_buffer(st.next_handle + 2)
            tex_info == IF tex_id \in DOMAIN texs
                        THEN <<tex_id, texs[tex_id].w, texs[tex_id].h>>
                        ELSE <<tex_id, 0, 0>>
            batch0 == RenderBatchNew(transparency, layer, shader_program_id,
                                     tex_info, descriptor_set,
                                     vertex_buffer, index_buffer)
            batch == [batch0 EXCEPT !.descriptor_writes =
                         write_descriptor_sets(texs, batch0,
                             shader_programs[shader_program_id])]
            bkey == BatchKey(batch)
        IN  [st EXCEPT
                !.batches = [k \in DOMAIN st.batches \cup {bkey} |->
                                IF k = bkey THEN batch ELSE st.batches[k]],
                !.desc_allocated[shader_program_id] = @ + 1,
                !.granted = @ - 1,
                !.next_handle = @ + 4,
                !.batch = bkey]

(***************************************************************************)
(* Renderer::process_commands.                                             *)
(***************************************************************************)
\* Variant: the commands are walked in the order of submission.
sort_byUnsorted(cmds) == cmds

\* Variant: a sort that is not stable (equal keys end up reversed).
sort_byUnstable(cmds) ==
    SortSeq(cmds, LAMBDA a, b : ~Lt64(RenderCommandKey(b), RenderCommandKey(a)))

sort_by(cmds) ==
    SortSeq(cmds, LAMBDA a, b : Lt64(RenderCommandKey(a), RenderCommandKey(b)))

\* Variant: a change of key does not end the current batch.
ProcessOneKeepsBatch(st, texs, command) ==
    IF st.panicked THEN st
    ELSE
    LET st2 == IF st.batch = NoBatch
               THEN create_render_batch(st, texs, command.transparency,
                        command.layer, command.shader_program_id,
                        command.tex_id)
               ELSE st
    IN  IF st2.panicked THEN st2
        ELSE [st2 EXCEPT !.batches[st2.batch] = process_command(@, command)]

\* One iteration of the loop over the sorted commands.
ProcessOne(st, texs, command) ==
    IF st.panicked THEN st
    ELSE
    LET b == st.batches[st.batch]
        flush == /\ st.batch # NoBatch
                 /\ \/ b.transparency # command.transparency
                    \/ b.layer # command.layer
                    \/ b.shader_program_id # command.shader_program_id
                    \/ BatchTexId(b) # command.tex_id
        st1 == IF flush
               THEN [st EXCEPT !.batch_keys = Append(@, BatchKey(b)),
                               !.batch = NoBatch]
               ELSE st
        st2 == IF st1.batch = NoBatch
               THEN create_render_batch(st1, texs, command.transparency,
                        command.layer, command.shader_program_id,
                        command.tex_id)
               ELSE st1
    IN  IF st2.panicked THEN st2
        ELSE [st2 EXCEPT !.batches[st2.batch] = process_command(@, command)]

\* The loop over sorted[lo .. hi], in order (split in halves, the first half
\* evaluated before the second, so that the evaluation depth stays
\* logarithmic in the number of commands); a panic ends the loop.
RECURSIVE ProcessRange(_, _, _, _, _)
ProcessRange(st, texs, sorted, lo, hi) ==
    IF lo > hi THEN st
    ELSE IF lo = hi THEN ProcessOne(st, texs, sorted[lo])
    ELSE LET mid == (lo + hi) \div 2
             first == ProcessRange(st, texs, sorted, lo, mid)
         IN  IF first.panicked THEN first
             ELSE ProcessRange(first, texs, sorted, mid + 1, hi)

\* Variant: the batches that got no request in the call are removed.
process_commandsEvicts(st0, texs, cmds) ==
    LET sorted == sort_by(cmds)
        st == ProcessRange(st0, texs, sorted, 1, Len(sorted))
        done == IF st.panicked \/ st.batch = NoBatch THEN st
                ELSE [st EXCEPT
                        !.batch_keys = Append(@, BatchKey(st.batches[st.batch])),
                        !.batch = NoBatch]
        kept == {done.batch_keys[i] : i \in DOMAIN done.batch_keys}
    IN  [done EXCEPT !.batches = [k \in kept |-> done.batches[k]]]

process_commands(st0, texs, cmds) ==
    LET sorted == sort_by(cmds)
        st == ProcessRange(st0, texs, sorted, 1, Len(sorted))
    IN  IF st.panicked \/ st.batch = NoBatch THEN st
        ELSE [st EXCEPT
                !.batch_keys = Append(@, BatchKey(st.batches[st.batch])),
                !.batch = NoBatch]

\* process_commands called with the list cmds, the device answering the
\* first granted descriptor set allocations of the call with a set and the
\* next one with an error.
ProcessCommandsStep(cmds, granted) ==
    /\ render_pc = "idle"
    /\ ~panicked
    /\ LET st0 == [batches |-> batches, desc_allocated |-> desc_allocated,
                   next_handle |-> next_handle, batch |-> NoBatch,
                   batch_keys |-> <<>>, panicked |-> FALSE,
                   granted |-> granted, alloc_failed |-> FALSE]
       IN  \E st \in {process_commands(st0, textures, cmds)} :
           /\ batches' = st.batches
           /\ desc_allocated' = st.desc_allocated
           /\ next_handle' = st.next_handle
           /\ batch_keys' = st.batch_keys
           /\ panicked' = st.panicked
           /\ log' = IF st.alloc_failed
                     THEN <<[op |-> "allocate_set_failed"]>>
                     ELSE <<>>
    /\ commands' = cmds
    /\ cmd_keys' = [i \in 1 .. Len(cmds) |-> RenderCommandKey(cmds[i])]
    /\ repeated' = IF repeated # "never" /\ cmds = commands THEN "yes" ELSE "no"
    /\ UNCHANGED <<textures, current_frame, frame_fences, destroyed,
                   in_flight, render_pc, images,
                   last_present, swap_vars,
                   mesh_vars, gpu_reads, sync_vars, tex_vars, unit_vars>>

\* process_commands called by a caller that keeps no request list of its own.
ProcessCommandsOn(cmds, granted) ==
    ProcessCommandsStep(cmds, granted) /\ UNCHANGED game_vars

\* The same with a device that has a set for every batch the call creates
\* (a call creates at most one batch for each request).
ProcessCommands(cmds) == ProcessCommandsOn(cmds, Len(cmds))

(***************************************************************************)
(* Renderer::create_gpu_texture and Drop for GpuTexture.                   *)
(***************************************************************************)
\* A u32 or usize value as <<high, low>> with low < 2^16; a u32 has
\* high < 2^16 too.
Wide(n) == <<n \div Limb, n % Limb>>

WideAdd(a, b) ==
    <<a[1] + b[1] + ((a[2] + b[2]) \div Limb), (a[2] + b[2]) % Limb>>

\* a * k for an integer k, without wrapping.
RECURSIVE WideMul(_, _)
WideMul(a, k) ==
    IF k = 0 THEN <<0, 0>>
    ELSE CHOOSE r \in {WideAdd(WideAdd(half, half),
                               IF k % 2 = 1 THEN a ELSE <<0, 0>>) :
                          half \in {WideMul(a, k \div 2)}} : TRUE

WideLeq(a, b) == a[1] < b[1] \/ (a[1] = b[1] /\ a[2] <= b[2])

\* What a u32 keeps of a value: the value modulo 2^32.
WrapU32(a) == <<a[1] % Limb, a[2]>>

\* The value no longer fits a u32.
OverflowsU32(a) == a[1] >= Limb

\* x & y on 16-bit values.
RECURSIVE BitAnd(_, _)
BitAnd(x, y) ==
    IF x = 0 \/ y = 0 THEN 0
    ELSE (x % 2) * (y % 2) + 2 * BitAnd(x \div 2, y \div 2)

\* a & b and !a on u32 values.
AndU32(a, b) == <<BitAnd(a[1], b[1]), BitAnd(a[2], b[2])>>

NotU32(a) == <<Limb - 1 - a[1], Limb - 1 - a[2]>>

\* (w * image_stride as u32 + row_alignment_mask) & !row_alignment_mask with
\* row_alignment_mask = alignment as u32 - 1, in wrapping u32 arithmetic.
row_pitch_u32(w, alignment) ==
    AndU32(WrapU32(WideAdd(WrapU32(WideMul(Wide(w), ImageStride)),
                           Wide(alignment - 1))),
           NotU32(Wide(alignment - 1)))

\* The row pitch as an integer.
RowPitch(w, alignment) ==
    row_pitch_u32(w, alignment)[1] * Limb + row_pitch_u32(w, alignment)[2]

\* The sizes create_gpu_texture computes and the row copies it makes into
\* the staging buffer.  With overflow checks (a debug build) a u32 operation
\* that overflows panics, without them (a release build) it wraps;
\* create_buffer panics on a length of zero.
UploadLayout(w, h, alignment, overflow_checks) ==
    LET bytes == WideMul(Wide(w), ImageStride)
        sum == WideAdd(WrapU32(bytes), Wide(alignment - 1))
        row_pitch == row_pitch_u32(w, alignment)
        size == WideMul(row_pitch, h)
        upload_size == WrapU32(size)
        overflowed ==
            OverflowsU32(bytes) \/ OverflowsU32(sum) \/ OverflowsU32(size)
    IN  IF (overflow_checks /\ overflowed) \/ upload_size = <<0, 0>>
        THEN [panicked |-> TRUE, row_pitch |-> row_pitch,
              upload_size |-> upload_size, rows |-> <<>>]
        ELSE [panicked |-> FALSE, row_pitch |-> row_pitch,
              upload_size |-> upload_size,
              rows |-> [y \in 1 .. h |->
                          [offset |-> WideMul(row_pitch, y - 1),
                           len |-> WideMul(Wide(w), ImageStride)]]]

\* The staging buffer after the row copies: byte offset -> value (offsets the
\* copies do not reach keep the value 0 of fresh memory).
StagingBytes(w, h, pixels, row_pitch) ==
    [o \in 0 .. (h * row_pitch - 1) |->
        LET y == o \div row_pitch
            x == o % row_pitch
        IN  IF x < w * ImageStride
            THEN pixels[y * w * ImageStride + x + 1]
            ELSE 0]

\* copy_buffer_to_image with buffer_width = row_pitch / 4 texels: the image
\* as rows of bytes.
CopyBufferToImage(staging, w, h, row_pitch) ==
    LET buffer_width == row_pitch \div ImageStride
    IN  [y \in 0 .. (h - 1) |->
            [x \in 0 .. (w * ImageStride - 1) |->
                staging[(y * buffer_width + (x \div ImageStride)) * ImageStride
                        + (x % ImageStride)]]]

GpuTextureDrop(tex) ==
    <<tex.image, tex.image_view, tex.sampler, tex.memory>>

\* Variant: the value stored before under the key is forgotten, not dropped.
TexturesInsertLeaks(texs, id, tex) ==
    [map |-> [k \in DOMAIN texs \cup {id} |-> IF k = id THEN tex ELSE texs[k]],
     dropped |-> <<>>]

\* HashMap::insert: the value stored before under the key is dropped.
TexturesInsert(texs, id, tex) ==
    [map |-> [k \in DOMAIN texs \cup {id} |-> IF k = id THEN tex ELSE texs[k]],
     dropped |-> IF id \in DOMAIN texs THEN GpuTextureDrop(texs[id]) ELSE <<>>]

\* Number of create_gpu_texture calls so far (each makes six device objects,
\* each batch four, Renderer::new two).
TextureCreations ==
    (next_handle - 3 - 4 * Cardinality(DOMAIN batches)) \div 6

\* One device call of a renderer operation.  busy: the frame slots with a queue
\* submission the GPU has not finished at the time of the call.
Ev(op, slot, buf, offset, len, stride) ==
    [op |-> op, slot |-> slot, buf |-> buf, offset |-> offset, len |-> len,
     stride |-> stride, busy |-> {s.slot : s \in in_flight}]

\* Variant: every call that takes a frame slot's object takes slot 0's.
CallOnFirstSlot(op, slot) == Ev(op, IF slot < 0 THEN slot ELSE 0, 0, 0, 0, 0)

\* A device call without a buffer range.
Call(op, slot) == Ev(op, slot, 0, 0, 0, 0)

\* Variant: the staging buffer and the fence are destroyed before the wait.
create_gpu_texture_callsDestroyFirst(handle, dropped) ==
    << Ev("create_image", -1, handle, 0, 0, 0),
       Ev("create_sampler", -1, handle + 3, 0, 0, 0),
       Ev("create_buffer", -1, handle + 4, 0, 0, 0),
       Ev("map_memory", -1, handle + 5, 0, 0, 0),
       Ev("copy_rows", -1, handle + 5, 0, 0, 0),
       Ev("flush_mapped_memory_ranges", -1, handle + 5, 0, 0, 0),
       Ev("unmap_memory", -1, handle + 5, 0, 0, 0),
       Call("create_fence", -1),
       Call("allocate_one", 0),
       Call("begin_primary", -1),
       Ev("barrier_Undefined_TransferDstOptimal", -1, handle, 0, 0, 0),
       Ev("copy_buffer_to_image", -1, handle + 4, 0, 0, 0),
       Ev("barrier_TransferDstOptimal_ShaderReadOnlyOptimal", -1, handle, 0, 0, 0),
       Call("finish", -1),
       Call("submit_without_semaphores", -1),
       Call("destroy_fence", -1),
       Ev("destroy_buffer", -1, handle + 4, 0, 0, 0),
       Ev("free_memory", -1, handle + 5, 0, 0, 0),
       Call("wait_for_fence", -1),
       Ev("textures_insert", -1, handle, 0, 0, 0) >>
    \o [i \in DOMAIN dropped |-> Ev("drop", -1, dropped[i], 0, 0, 0)]

\* The device calls of create_gpu_texture, in the order of the code: the
\* six device objects are handle (image), + 1 (its memory), + 2 (view),
\* + 3 (sampler), + 4 (staging buffer), + 5 (staging memory); the fence of
\* the copy belongs to no frame slot (slot -1), the command buffer comes
\* from the command pool of slot 0; dropped are the objects of the texture
\* that the insert replaces.
create_gpu_texture_calls(handle, dropped) ==
    << Ev("create_image", -1, handle, 0, 0, 0),
       Ev("create_sampler", -1, handle + 3, 0, 0, 0),
       Ev("create_buffer", -1, handle + 4, 0, 0, 0),
       Ev("map_memory", -1, handle + 5, 0, 0, 0),
       Ev("copy_rows", -1, handle + 5, 0, 0, 0),
       Ev("flush_mapped_memory_ranges", -1, handle + 5, 0, 0, 0),
       Ev("unmap_memory", -1, handle + 5, 0, 0, 0),
       Call("create_fence", -1),
       Call("allocate_one", 0),
       Call("begin_primary", -1),
       Ev("barrier_Undefined_TransferDstOptimal", -1, handle, 0, 0, 0),
       Ev("copy_buffer_to_image", -1, handle + 4, 0, 0, 0),
       Ev("barrier_TransferDstOptimal_ShaderReadOnlyOptimal", -1, handle, 0, 0, 0),
       Call("finish", -1),
       Call("submit_without_semaphores", -1),
       Call("wait_for_fence", -1),
       Call("destroy_fence", -1),
       Ev("destroy_buffer", -1, handle + 4, 0, 0, 0),
       Ev("free_memory", -1, handle + 5, 0, 0, 0),
       Ev("textures_insert", -1, handle, 0, 0, 0) >>
    \o [i \in DOMAIN dropped |-> Ev("drop", -1, dropped[i], 0, 0, 0)]

\* The calls of create_gpu_texture up to the submission of the copy, and
\* those it makes from the wait on the copy's fence on.
ThroughSubmit(calls) ==
    SubSeq(calls, 1,
           CHOOSE n \in DOMAIN calls : calls[n].op = "submit_without_semaphores")

FromWait(calls) ==
    SubSeq(calls,
           1 + CHOOSE n \in DOMAIN calls :
                   calls[n].op = "submit_without_semaphores",
           Len(calls))

\* create_gpu_texture up to device.wait_for_fence(&copy_fence, !0): the
\* image, its memory, view and sampler and the staging buffer are made, the
\* pixels are written to the staging memory, the copy is recorded and
\* submitted with a fence of its own, and the thread blocks on that fence.
CreateGpuTexture(id, w, h, pixels, alignment) ==
    /\ render_pc = "idle"
    /\ ~panicked
    /\ render_pc' = "copy_wait"
    /\ LET texture_image == next_handle
           texture_memory == next_handle + 1
           texture_view == next_handle + 2
           texture_sampler == next_handle + 3
           row_pitch == RowPitch(w, alignment)
           staging == StagingBytes(w, h, pixels, row_pitch)
           tex == [id |-> id, image |-> texture_image,
                   memory |-> texture_memory, image_view |-> texture_view,
                   sampler |-> texture_sampler, w |-> w, h |-> h]
           ins == TexturesInsert(textures, id, tex)
       IN  /\ next_handle' = next_handle + 6
           /\ texture_calls' =
                  ThroughSubmit(create_gpu_texture_calls(next_handle, ins.dropped))
           /\ texture_copy' =
                  [state |-> "submitted", id |-> id, tex |-> tex,
                   pixels |-> pixels,
                   image |-> CopyBufferToImage(staging, w, h, row_pitch)]
    /\ log' = <<>>
    /\ UNCHANGED <<batches, textures, current_frame, frame_fences,
                   desc_allocated, destroyed, images,
                   in_flight, commands, cmd_keys, batch_keys,
                   repeated, panicked,
                   last_present, swap_vars,
                   mesh_vars, gpu_reads, sync_vars, game_vars,
                   unit_vars>>

\* The GPU finishes the copy that create_gpu_texture submitted: the image
\* holds the texels and the copy's fence is signaled.  The frames submitted
\* before may or may not have finished.
GpuFinishCopy ==
    /\ texture_copy.state = "submitted"
    /\ texture_copy' = [texture_copy EXCEPT !.state = "signaled"]
    /\ images' = [g \in DOMAIN images \cup {texture_copy.tex.image} |->
                     IF g = texture_copy.tex.image THEN texture_copy.image
                     ELSE images[g]]
    /\ UNCHANGED <<batches, textures, current_frame, frame_fences,
                   desc_allocated, next_handle, destroyed, in_flight,
                   render_pc, log, commands, cmd_keys, batch_keys, repeated,
                   panicked, last_present, swap_vars, mesh_vars, gpu_reads,
                   sync_vars, game_vars, texture_calls, unit_vars>>

\* create_gpu_texture from the return of the wait on the copy's fence: the
\* fence, the staging buffer and its memory are destroyed and the texture
\* is inserted into the map, which drops the texture stored under the id.
CreateGpuTextureEnd ==
    /\ render_pc = "copy_wait"
    /\ texture_copy.state = "signaled"
    /\ render_pc' = "idle"
    /\ LET tex == texture_copy.tex
           image_upload_buffer == tex.image + 4
           image_upload_memory == tex.image + 5
           ins == TexturesInsert(textures, texture_copy.id, tex)
           gone == {ins.dropped[i] : i \in DOMAIN ins.dropped}
       IN  /\ textures' = ins.map
           /\ texture_calls' = texture_calls
                  \o FromWait(create_gpu_texture_calls(tex.image, ins.dropped))
           /\ destroyed' = destroyed
                   \o <<image_upload_buffer, image_upload_memory>>
                   \o ins.dropped
           /\ images' = [g \in DOMAIN images \ gone |-> images[g]]
    /\ texture_copy' = [state |-> "none"]
    /\ UNCHANGED <<batches, current_frame, frame_fences, desc_allocated,
                   next_handle, in_flight, log, commands, cmd_keys,
                   batch_keys, repeated, panicked,
                   last_present, swap_vars,
                   mesh_vars, gpu_reads, sync_vars, game_vars,
                   unit_vars>>

(***************************************************************************)
(* Renderer::render, Renderer::render_batch, update_buffer.                *)
(***************************************************************************)
\* Variant: the write always starts at the beginning of the memory.
update_bufferAtStart(buffer_memory, frame_idx, buffer_frame_size, count, size_of) ==
    Ev("update_buffer", frame_idx, buffer_memory, 0, count * size_of,
       buffer_frame_size)

\* update_buffer: the byte range [frame_idx * frame size, + data length) of
\* the memory is mapped, written, flushed and unmapped.
update_buffer(buffer_memory, frame_idx, buffer_frame_size, count, size_of) ==
    Ev("update_buffer", frame_idx, buffer_memory,
       frame_idx * buffer_frame_size, count * size_of, buffer_frame_size)

\* The mapped range of a write ends after the end of the buffer's memory.
OutOfRange(e) ==
    /\ e.op = "update_buffer"
    /\ e.offset + e.len > FramesInFlight * e.stride

\* Where in the uniform buffer a draw with the batch's descriptor set reads
\* the uniform block: the offset of the buffer range that
\* write_descriptor_sets bound, plus the dynamic offset given to
\* bind_graphics_descriptor_sets, when one is given.
UniformOffset(batch, dynamic_offsets) ==
    batch.descriptor_writes[1].offset
        + (IF dynamic_offsets = <<>> THEN 0 ELSE dynamic_offsets[1])

\* The map_memory call of an update_buffer whose range ends after the end of
\* the memory returned an error: unwrap panics and nothing is written.
MapFailed(e) == [e EXCEPT !.op = "map_memory_failed"]

\* render_batch on the state r (batches, log, panicked; fault: a mapping
\* that ends after the end of the memory fails).  The mesh is taken out of
\* the batch before the uploads; a panic ends the call where it happens.
render_batch(r, batch_key, frame_idx) ==
    IF r.panicked THEN r
    ELSE IF batch_key \notin DOMAIN r.batches THEN [r EXCEPT !.panicked = TRUE]
    ELSE
    LET batch == r.batches[batch_key]
        mesh == batch.batch_mesh
        indices_len == Len(mesh.indices)
        vertices_update ==
            update_buffer(batch.vertex_buffer[2], frame_idx,
                batch.vertex_buffer[3], Len(mesh.vertices), SizeOfVertex)
        indices_update ==
            update_buffer(batch.index_buffer[2], frame_idx,
                batch.index_buffer[3], Len(mesh.indices), SizeOfIndex)
        taken == Ev("take_mesh", frame_idx, batch_key, 0, 0, 0)
    IN  IF r.fault /\ OutOfRange(vertices_update)
        THEN [r EXCEPT !.batches[batch_key].batch_mesh = EmptyMesh,
                       !.panicked = TRUE,
                       !.log = @ \o <<taken, MapFailed(vertices_update)>>]
        ELSE IF r.fault /\ OutOfRange(indices_update)
        THEN [r EXCEPT !.batches[batch_key].batch_mesh = EmptyMesh,
                       !.panicked = TRUE,
                       !.log = @ \o <<taken, vertices_update,
                                      MapFailed(indices_update)>>]
        ELSE
        [r EXCEPT
            !.batches[batch_key].batch_mesh = EmptyMesh,
            !.log = @ \o
                << taken,
                   vertices_update,
                   indices_update,
                   Ev("bind_graphics_pipeline", frame_idx,
                       batch.shader_program_id, 0, 0, 0),
                   Ev("bind_vertex_buffers", frame_idx, batch.vertex_buffer[1],
                       frame_idx * batch.vertex_buffer[3],
                       batch.vertex_buffer[3], batch.vertex_buffer[3]),
                   Ev("bind_index_buffer", frame_idx, batch.index_buffer[1],
                       frame_idx * batch.index_buffer[3],
                       batch.index_buffer[3], batch.index_buffer[3]),
                   Ev("bind_graphics_descriptor_sets", frame_idx,
                       batch.descriptor_set, UniformOffset(batch, <<>>),
                       SizeOfUbo, uniform_buffer[3]),
                   Ev("draw_indexed", frame_idx, batch_key, 0, indices_len, 0) >>]

RECURSIVE RenderBatches(_, _, _)
RenderBatches(r, keys, frame_idx) ==
    IF keys = <<>> THEN r
    ELSE RenderBatches(render_batch(r, Head(keys), frame_idx),
                       Tail(keys), frame_idx)

\* Variant: the swapchain is left as it is.
rebuild_swapchainSkipped == <<>>

\* Variant: the swapchain is rebuilt after a wait for the device.
rebuild_swapchainWaits ==
    <<Call("wait_idle", -1), Call("rebuild_swapchain", -1)>>

\* Renderer::rebuild_swapchain
rebuild_swapchain == <<Call("rebuild_swapchain", -1)>>

\* SwapchainConfig::from_caps(&capabilities, format, dimensions) as
\* rebuild_swapchain calls it: the extent is the one the surface prescribes,
\* or the dimensions asked for when it prescribes none.
from_caps(capabilities, default_extent) ==
    [dimensions |-> default_extent,
     extent |-> IF capabilities = NoExtent THEN default_extent
                ELSE capabilities]

\* rebuild_swapchain with self.dimensions = dims: the swapchain is
\* configured from the surface's capabilities and the viewport takes the
\* extent of the configuration.
SwapchainRebuilt(dims) ==
    /\ swapchain' = from_caps(surface_extent, dims)
    /\ viewport' = from_caps(surface_extent, dims).extent

\* Renderer::rebuild_swapchain called on its own (the window loop calls it
\* after the init callback).
RebuildSwapchain ==
    /\ render_pc = "idle"
    /\ ~panicked
    /\ SwapchainRebuilt(dimensions)
    /\ log' = rebuild_swapchain
    /\ UNCHANGED <<batches, textures, current_frame, frame_fences,
                   desc_allocated, next_handle, destroyed, in_flight,
                   render_pc, images, commands, cmd_keys, batch_keys,
                   repeated, panicked, last_present, dimensions,
                   surface_extent, last_resize,
                   mesh_vars, gpu_reads, sync_vars, game_vars,
                   tex_vars, unit_vars>>

\* Variant: resize stores the dimensions and leaves the swapchain.
ResizeKeepsSwapchain(width, height) ==
    /\ render_pc = "idle"
    /\ ~panicked
    /\ dimensions' = <<width, height>>
    /\ last_resize' = <<width, height>>
    /\ log' = <<>>
    /\ UNCHANGED <<batches, textures, current_frame, frame_fences,
                   desc_allocated, next_handle, destroyed, in_flight,
                   render_pc, images, commands, cmd_keys, batch_keys,
                   repeated, panicked, last_present, swapchain, viewport,
                   surface_extent,
                   mesh_vars, gpu_reads, sync_vars, game_vars,
                   tex_vars, unit_vars>>

\* Renderer::resize
Resize(width, height) ==
    /\ render_pc = "idle"
    /\ ~panicked
    /\ dimensions' = <<width, height>>
    /\ last_resize' = <<width, height>>
    /\ SwapchainRebuilt(<<width, height>>)
    /\ log' = rebuild_swapchain
    /\ UNCHANGED <<batches, textures, current_frame, frame_fences,
                   desc_allocated, next_handle, destroyed, in_flight,
                   render_pc, images, commands, cmd_keys, batch_keys,
                   repeated, panicked, last_present, surface_extent,
                   mesh_vars, gpu_reads, sync_vars, game_vars,
                   tex_vars, unit_vars>>

\* The window system changes the extent that the surface prescribes.
SurfaceChanged(extent) ==
    /\ render_pc = "idle"
    /\ ~panicked
    /\ surface_extent # extent
    /\ surface_extent' = extent
    /\ UNCHANGED <<batches, textures, current_frame, frame_fences,
                   desc_allocated, next_handle, destroyed, in_flight,
                   render_pc, log, images, commands, cmd_keys, batch_keys,
                   repeated, panicked, last_present, dimensions, viewport,
                   swapchain, last_resize, mesh_vars, gpu_reads, sync_vars, game_vars,
                   tex_vars, unit_vars>>

\* Variant: after the rebuild the call goes on with the frame.
RenderAcquireFailedGoesOn ==
    /\ render_pc = "idle"
    /\ ~panicked
    /\ render_pc' = "wait"
    /\ log' = <<Call("acquire_image_failed", -1)>> \o rebuild_swapchain
    /\ SwapchainRebuilt(dimensions)
    /\ UNCHANGED <<batches, textures, current_frame, frame_fences,
                   desc_allocated, next_handle, destroyed, in_flight,
                   images, commands, cmd_keys, batch_keys, repeated, panicked,
                   last_present, dimensions,
                   surface_extent, last_resize, mesh_vars,
                   gpu_reads, sync_vars, game_vars,
                   tex_vars, unit_vars>>

\* render, acquire_image returned Err: rebuild the swapchain and return.
RenderAcquireFailed ==
    /\ render_pc = "idle"
    /\ ~panicked
    /\ log' = <<Call("acquire_image_failed", -1)>> \o rebuild_swapchain
    /\ SwapchainRebuilt(dimensions)
    /\ UNCHANGED <<batches, textures, current_frame, frame_fences,
                   desc_allocated, next_handle, destroyed, in_flight,
                   render_pc, images, commands, cmd_keys, batch_keys,
                   repeated, panicked,
                   last_present, dimensions,
                   surface_extent, last_resize, mesh_vars,
                   gpu_reads, sync_vars, game_vars,
                   tex_vars, unit_vars>>

\* render, acquire_image returned an image: the framebuffer is created and
\* the call blocks in wait_for_fence on the frame slot's fence.
RenderAcquire ==
    /\ render_pc = "idle"
    /\ ~panicked
    /\ render_pc' = "wait"
    /\ log' = <<Call("acquire_image", -1), Call("create_framebuffer", -1)>>
    /\ live_framebuffers' = live_framebuffers \cup {current_frame}
    /\ UNCHANGED <<batches, textures, current_frame, frame_fences,
                   desc_allocated, next_handle, destroyed, in_flight,
                   images, commands, cmd_keys, batch_keys, repeated, panicked,
                   last_present, swap_vars,
                   mesh_vars, gpu_reads, frame_semaphores,
                   present_queue, presented_early, game_vars,
                   tex_vars, unit_vars>>

\* create_buffer: the memory bound to a buffer is the device object made
\* right after it.
MemoryOf(buffer) == buffer + 1

\* The buffer ranges that the commands recorded in the log l read when the
\* GPU executes them: the ranges bound as vertex and index buffers and those
\* bound through descriptor sets.
ReadsOf(l) ==
    { <<MemoryOf(l[n].buf), l[n].offset, l[n].len>> :
        n \in {m \in DOMAIN l :
                 l[m].op \in {"bind_vertex_buffers", "bind_index_buffer"}} }
    \cup
    { <<uniform_buffer[2], l[n].offset, l[n].len>> :
        n \in {m \in DOMAIN l : l[m].op = "bind_graphics_descriptor_sets"} }

\* Variant: wait_for_fence returns at once.
wait_for_fenceAtOnce(frame_idx) == TRUE

\* device.wait_for_fence(&frame_fences[frame_idx], !0) returns.
wait_for_fence(frame_idx) == frame_fences[frame_idx] = "signaled"

\* Variant: present waits on the other slot's semaphore.
present_semaphoreOther(frame_idx) == 1 - frame_idx

\* The semaphore that present_surface is given to wait on.
present_semaphore(frame_idx) == frame_idx

\* present_surface for the image of a frame, waiting on a semaphore.  The
\* presentation engine takes the image as soon as the semaphore is
\* signaled, which unsignals it; a present that returned an error has still
\* queued its wait but shows no image (image = FALSE).  The call comes
\* right after the frame's queue submission.
PresentQueued(frame, semaphore, image) ==
    IF frame_semaphores[semaphore] = "signaled"
    THEN /\ frame_semaphores' =
                [frame_semaphores EXCEPT ![semaphore] = "unsignaled"]
         /\ presented_early' = (presented_early \/ image)
         /\ UNCHANGED present_queue
    ELSE /\ present_queue' = present_queue \cup
                {[frame |-> frame, semaphore |-> semaphore, image |-> image]}
         /\ UNCHANGED <<frame_semaphores, presented_early>>

\* The semaphore of a finished submission is signaled: the oldest present
\* that waits on it takes its image, or the semaphore stays signaled.
SemaphoreSignaled(sub) ==
    LET waiting == {p \in present_queue : p.semaphore = sub.slot}
    IN  IF waiting = {}
        THEN /\ frame_semaphores' =
                    [frame_semaphores EXCEPT ![sub.slot] = "signaled"]
             /\ UNCHANGED <<present_queue, presented_early>>
        ELSE \E p \in waiting :
                /\ \A q \in waiting : p.frame <= q.frame
                /\ present_queue' = present_queue \ {p}
                /\ presented_early' =
                       (presented_early \/
                           (p.image /\ \E s2 \in in_flight \ {sub} :
                                          s2.frame = p.frame))
                /\ UNCHANGED frame_semaphores

\* Variant: the submission is given the other slot's fence.
submit_fenceOther(frame_idx) == 1 - frame_idx

\* The fence passed to queue.submit with the frame's command buffer.
submit_fence(frame_idx) == frame_idx

\* The calls made after the submission of the frame of slot frame_idx: its
\* submission is one of those the GPU has not finished.
AfterSubmit(calls, frame_idx) ==
    [i \in DOMAIN calls |-> [calls[i] EXCEPT !.busy = @ \cup {frame_idx}]]

\* Variant: the image is presented before the command buffer is submitted.
FrameTailPresentFirst(frame_idx, present_ok) ==
    << Call("end_render_pass", frame_idx),
       Call("finish", frame_idx),
       Call(IF present_ok THEN "present_surface" ELSE "present_surface_failed",
            present_semaphore(frame_idx)),
       Call("submit", frame_idx) >>
    \o AfterSubmit(<<Call("destroy_framebuffer", -1)>>
                      \o (IF present_ok THEN <<>> ELSE rebuild_swapchain),
                   frame_idx)

\* The device calls of render after the batches are recorded.
FrameTail(frame_idx, present_ok) ==
    << Call("end_render_pass", frame_idx),
       Call("finish", frame_idx),
       Call("submit", frame_idx) >>
    \o AfterSubmit(
           << Call(IF present_ok THEN "present_surface"
                   ELSE "present_surface_failed",
                   present_semaphore(frame_idx)),
              Call("destroy_framebuffer", -1) >>
             \o (IF present_ok THEN <<>> ELSE rebuild_swapchain),
           frame_idx)

\* render from the return of wait_for_fence to the end of the call.
\* present_ok: present_surface returned Ok.  fault: what a mapping that ends
\* after the end of the memory does (undefined: the call fails and unwrap
\* panics, or the write goes through).
RenderFrame(present_ok, fault) ==
    LET frame_idx == current_frame % FramesInFlight
        head == log \o
            << Call("wait_for_fence", frame_idx),
               Call("reset_fence", frame_idx),
               Call("reset_command_pool", frame_idx),
               update_buffer(uniform_buffer[2], frame_idx, uniform_buffer[3],
                   1, SizeOfUbo),
               Call("begin_primary", frame_idx),
               Call("begin_render_pass", frame_idx) >>
        r == RenderBatches([batches |-> batches, log |-> head,
                            panicked |-> FALSE, fault |-> fault],
                           batch_keys, frame_idx)
        tail == FrameTail(frame_idx, present_ok)
    IN  /\ render_pc = "wait"
        /\ ~panicked
        /\ wait_for_fence(frame_idx)
        /\ render_pc' = "idle"
        /\ IF r.panicked
           THEN /\ panicked' = TRUE
                /\ log' = r.log
                /\ batches' = r.batches
                /\ frame_fences' = [frame_fences EXCEPT ![frame_idx] = "unsignaled"]
                /\ UNCHANGED <<current_frame, in_flight,
                               last_present, swapchain,
                               viewport, gpu_reads, sync_vars>>
           ELSE /\ panicked' = FALSE
                /\ log' = r.log \o tail
                /\ batches' = r.batches
                /\ frame_fences' = [frame_fences EXCEPT ![frame_idx] = "unsignaled"]
                /\ in_flight' = in_flight \cup
                       {[slot |-> frame_idx, fence |-> submit_fence(frame_idx),
                         frame |-> current_frame]}
                /\ current_frame' = current_frame + 1
                /\ gpu_reads' = [gpu_reads EXCEPT ![frame_idx] = ReadsOf(r.log)]
                /\ last_present' = IF present_ok THEN "ok" ELSE "failed"
                /\ IF present_ok THEN UNCHANGED <<swapchain, viewport>>
                   ELSE SwapchainRebuilt(dimensions)
                /\ PresentQueued(current_frame, present_semaphore(frame_idx),
                                 present_ok)
                /\ live_framebuffers' = live_framebuffers \ {current_frame}
        /\ UNCHANGED <<textures, desc_allocated, next_handle, destroyed,
                       images, commands, cmd_keys, batch_keys, repeated,
                       dimensions, surface_extent, last_resize,
                       mesh_vars, game_vars,
                   tex_vars, unit_vars>>

\* The GPU finishes a queue submission and signals the fence given with it.
GpuFinish(sub) ==
    /\ sub \in in_flight
    /\ in_flight' = in_flight \ {sub}
    /\ frame_fences' = [frame_fences EXCEPT ![sub.fence] = "signaled"]
    /\ gpu_reads' = [gpu_reads EXCEPT ![sub.slot] = {}]
    /\ SemaphoreSignaled(sub)
    /\ UNCHANGED <<batches, textures, current_frame, desc_allocated,
                   next_handle, destroyed, render_pc, log, images, commands,
                   cmd_keys, batch_keys, repeated, panicked,
                   last_present, swap_vars,
                   mesh_vars,
                   live_framebuffers, game_vars,
                   tex_vars, unit_vars>>

(***************************************************************************)
(* Drop for Renderer, Drop for GpuTexture, RenderProgram and RenderBatch.  *)
(***************************************************************************)
\* The orders in which a HashMap with the keys S may hand out its entries
\* (HashMap::clear and the drop of a map take them in the map's iteration
\* order, which differs from run to run).
Orders(S) ==
    { o \in [1 .. Cardinality(S) -> S] :
        \A i \in DOMAIN o, j \in DOMAIN o : o[i] = o[j] => i = j }

RECURSIVE Flatten(_)
Flatten(seqs) == IF seqs = <<>> THEN <<>> ELSE Head(seqs) \o Flatten(Tail(seqs))

\* Drop for GpuTexture
GpuTextureDropCalls(tex) ==
    << Ev("destroy_image", -1, tex.image, 0, 0, 0),
       Ev("destroy_image_view", -1, tex.image_view, 0, 0, 0),
       Ev("destroy_sampler", -1, tex.sampler, 0, 0, 0),
       Ev("free_memory", -1, tex.memory, 0, 0, 0) >>

\* Drop for RenderProgram
RenderProgramDropCalls(p) ==
    << Ev("destroy_shader_module", -1, p, 0, 0, 0),
       Ev("destroy_shader_module", -1, p, 0, 0, 0),
       Ev("destroy_graphics_pipeline", -1, p, 0, 0, 0),
       Ev("destroy_pipeline_layout", -1, p, 0, 0, 0),
       Ev("destroy_descriptor_set_layout", -1, p, 0, 0, 0),
       Ev("descriptor_pool_reset", -1, p, 0, 0, 0),
       Ev("destroy_descriptor_pool", -1, p, 0, 0, 0) >>

\* Drop for RenderBatch
RenderBatchDropCalls(b) ==
    << Ev("destroy_buffer", -1, b.vertex_buffer[1], 0, 0, 0),
       Ev("free_memory", -1, b.vertex_buffer[2], 0, 0, 0),
       Ev("destroy_buffer", -1, b.index_buffer[1], 0, 0, 0),
       Ev("free_memory", -1, b.index_buffer[2], 0, 0, 0) >>

\* The device calls of Drop for Renderer up to the one that precedes
\* wait_idle.
DropDestroyCalls(tex_ids, programs, keys) ==
        Flatten([i \in DOMAIN tex_ids |-> GpuTextureDropCalls(textures[tex_ids[i]])])
        \o Flatten([i \in DOMAIN programs |-> RenderProgramDropCalls(programs[i])])
        \o Flatten([i \in DOMAIN keys |-> RenderBatchDropCalls(batches[keys[i]])])
        \o << Call("destroy_surface", -1),
              Call("destroy_render_pass", -1),
              Ev("destroy_buffer", -1, uniform_buffer[1], 0, 0, 0),
              Ev("free_memory", -1, uniform_buffer[2], 0, 0, 0),
              Call("destroy_semaphore", 0),
              Call("destroy_semaphore", 1),
              Call("destroy_fence", 0),
              Call("destroy_fence", 1) >>

\* Drop for Renderer up to the call of device.wait_idle().
drop_calls(tex_ids, programs, keys) ==
    DropDestroyCalls(tex_ids, programs, keys) \o <<Call("wait_idle", -1)>>

\* Drop for Renderer starts: everything but the command pools is destroyed
\* and the thread blocks in wait_idle.
DropRenderer ==
    /\ render_pc = "idle"
    /\ render_pc' = "wait_idle"
    /\ \E tex_ids \in Orders(DOMAIN textures),
          programs \in Orders(DOMAIN shader_programs),
          keys \in Orders(DOMAIN batches) :
        \E calls \in {DropDestroyCalls(tex_ids, programs, keys)} :
          /\ log' = drop_calls(tex_ids, programs, keys)
          /\ destroyed' = destroyed \o
              [i \in 1 .. Len(SelectSeq(calls, LAMBDA e : e.buf # 0 /\ e.op
                     \in {"destroy_image", "destroy_image_view",
                          "destroy_sampler", "free_memory", "destroy_buffer"}))
                 |-> SelectSeq(calls, LAMBDA e : e.buf # 0 /\ e.op
                     \in {"destroy_image", "destroy_image_view",
                          "destroy_sampler", "free_memory",
                          "destroy_buffer"})[i].buf]
    /\ textures' = <<>>
    /\ batches' = <<>>
    /\ images' = <<>>
    /\ UNCHANGED <<current_frame, frame_fences, desc_allocated, next_handle,
                   in_flight, commands, cmd_keys, batch_keys, repeated,
                   panicked, last_present, swap_vars, mesh_vars, gpu_reads,
                   sync_vars, game_vars,
                   tex_vars, unit_vars>>

\* A panic unwinds the stack of the thread that owns the renderer, which
\* drops the renderer (when the build unwinds on a panic).
Unwind == panicked /\ DropRenderer

\* wait_idle returns when the GPU has finished every submission; the
\* command pools are reset and destroyed.
DropRendererEnd ==
    /\ render_pc = "wait_idle"
    /\ in_flight = {}
    /\ render_pc' = "dropped"
    /\ log' = log \o << Call("command_pool_reset", 0),
                       Call("destroy_command_pool", 0),
                       Call("command_pool_reset", 1),
                       Call("destroy_command_pool", 1) >>
    /\ UNCHANGED <<batches, textures, current_frame, frame_fences,
                   desc_allocated, next_handle, destroyed, in_flight, images,
                   commands, cmd_keys, batch_keys, repeated, panicked,
                   last_present, swap_vars, mesh_vars, gpu_reads,
                   sync_vars, game_vars,
                   tex_vars, unit_vars>>

(***************************************************************************)
(* Renderer::new.  The dimensions and the viewport are the window's inner  *)
(* size; the swapchain is first configured by rebuild_swapchain.           *)
(***************************************************************************)
\* window.inner_size() at the start, <<width, height>>
InitialSize == <<4, 3>>

\* The indices of the entities (Entity::id).
Entities == 1 .. NumClickables

\* The Entity (index and generation) that has index id in a state where
\* gens[id] entities have had that index.
EntityAt(gens, id) == [id |-> id, gen |-> gens[id]]

\* TimeState::new
TimeStateNew == [day |-> 1, time_of_day |-> "Morning", hours_passed |-> 0]

Init ==
    /\ batches = <<>>
    /\ textures = <<>>
    /\ current_frame = 0
    /\ frame_fences = [s \in Slots |-> "signaled"]
    /\ desc_allocated = [p \in DOMAIN shader_programs |-> 0]
    /\ next_handle = 3
    /\ destroyed = <<>>
    /\ in_flight = {}
    /\ render_pc = "idle"
    /\ log = <<>>
    /\ images = <<>>
    /\ commands = <<>>
    /\ cmd_keys = <<>>
    /\ batch_keys = <<>>
    /\ repeated = "never"
    /\ panicked = FALSE
    /\ last_present = "none"
    /\ dimensions = InitialSize
    /\ viewport = InitialSize
    /\ swapchain = Unconfigured
    /\ surface_extent = NoExtent
    /\ last_resize = NoExtent
    /\ free_mesh = EmptyMesh
    /\ mesh_call = [op |-> "new"]
    /\ gpu_reads = [s \in Slots |-> {}]
    /\ frame_semaphores = [s \in Slots |-> "unsignaled"]
    /\ present_queue = {}
    /\ presented_early = FALSE
    /\ live_framebuffers = {}
    /\ game_commands = <<>>
    /\ accumulator = 0
    /\ iteration = 0
    /\ texture_calls = <<>>
    /\ texture_copy = [state |-> "none"]
    /\ mapped = {}
    /\ pure_call = [op |-> "none"]
    /\ clickables = [id \in {} |-> "Normal"]
    /\ click_run = [op |-> "new", cursor_hit_ents |-> {}, held |-> FALSE,
                    before |-> [id \in {} |-> "Normal"], events |-> <<>>]
    /\ generation = [id \in Entities |-> 0]
    /\ index_events = [id \in Entities |-> 0]
    /\ streak_events = [ent \in {} |-> 0]
    /\ time = TimeStateNew
    /\ time_run = [before |-> TimeStateNew, events |-> <<>>, trace |-> <<>>,
                   written |-> <<>>]

(***************************************************************************)
(* Inputs.                                                                 *)
(***************************************************************************)
QuadA == [kind |-> "Quad", bl |-> <<0, 0>>, br |-> <<1, 0>>,
          tl |-> <<0, 1>>, tr |-> <<1, 1>>, color |-> "white"]

QuadB == [kind |-> "Quad", bl |-> <<2, 2>>, br |-> <<5, 2>>,
          tl |-> <<2, 4>>, tr |-> <<5, 4>>, color |-> "red"]

SpriteA == [kind |-> "Sprite", x |-> 8, y |-> 8, pivot |-> <<1, 1>>,
            scale |-> <<2, 2>>, color |-> "white",
            region |-> [x |-> 1, y |-> 0, w |-> 1, h |-> 1]]

Cmd(transparency, layer, shader_program_id, tex_id, data) ==
    [transparency |-> transparency, shader_program_id |-> shader_program_id,
     tex_id |-> tex_id, layer |-> layer, data |-> data]

\* Requests: two opaque ones with the same key and a transparent one whose
\* layer, program and texture are all lower.
Requests ==
    { Cmd(Opaque, 2, 1, 1, QuadA),
      Cmd(Opaque, 2, 1, 1, QuadB),
      Cmd(Transparent, 0, 0, 0, SpriteA) }

SeqsUpTo(S, n) == UNION {[1 .. k -> S] : k \in 0 .. n}

CommandLists == SeqsUpTo(Requests, MaxCmds)

\* Textures given to create_gpu_texture: id, width, height, RGBA8 pixels.
Pixels(w, h, base) == [i \in 1 .. (w * h * ImageStride) |-> base + i]

TextureInputs ==
    { [id |-> 1, w |-> 2, h |-> 1, pixels |-> Pixels(2, 1, 0)],
      [id |-> 1, w |-> 1, h |-> 2, pixels |-> Pixels(1, 2, 100)] }

\* optimal_buffer_copy_pitch_alignment of the device
PitchAlignments == {1, 16}

\* RenderCommand::key applied to two requests (the comparator of the sort).
KeyPair(a, b) ==
    /\ ~panicked
    /\ repeated = "never"
    /\ commands = <<>>
    /\ commands' = <<a, b>>
    /\ cmd_keys' = <<RenderCommandKey(a), RenderCommandKey(b)>>
    /\ UNCHANGED <<batches, textures, current_frame, frame_fences,
                   desc_allocated, next_handle, destroyed, in_flight,
                   render_pc, log, images, batch_keys, repeated, panicked,
                   last_present, swap_vars,
                   mesh_vars, gpu_reads, sync_vars, game_vars,
                   tex_vars, unit_vars>>

\* Requests over the whole range of each key field.
KeyFieldRequests ==
    { Cmd(t, l, p, x, QuadA) :
        t \in {Opaque, Transparent}, l \in {0, 1, 255},
        p \in {0, 1, 65535}, x \in {0, 1, 65535} }

(***************************************************************************)
(* Spec: the renderer driven by process_commands and render calls over     *)
(* all request lists up to MaxCmds; acquire and present succeed and the    *)
(* GPU finishes a frame before the next call is made.                      *)
(***************************************************************************)
Next ==
    \/ /\ in_flight = {}
       /\ \E cmds \in CommandLists : ProcessCommands(cmds)
    \/ /\ in_flight = {}
       /\ current_frame < MaxBatchFrames
       /\ RenderAcquire
    \/ RenderFrame(TRUE, FALSE)
    \/ \E sub \in in_flight : GpuFinish(sub)

Spec == Init /\ [][Next]_vars

(***************************************************************************)
(* SpecKey: the key function on pairs of requests.                         *)
(***************************************************************************)
NextKey == \E a \in KeyFieldRequests, b \in KeyFieldRequests : KeyPair(a, b)

SpecKey == Init /\ [][NextKey]_vars

(***************************************************************************)
(* SpecFrame: the frame loop with the GPU running beside the CPU, up to    *)
(* MaxFrames frames.                                                       *)
(***************************************************************************)
FrameCommandLists ==
    { <<>>,
      <<Cmd(Opaque, 2, 1, 1, QuadA)>>,
      <<Cmd(Transparent, 0, 0, 0, SpriteA), Cmd(Opaque, 2, 1, 1, QuadA)>> }

NextFrame ==
    \/ \E cmds \in FrameCommandLists : ProcessCommands(cmds)
    \/ (current_frame < MaxFrames /\ RenderAcquireFailed)
    \/ (current_frame < MaxFrames /\ RenderAcquire)
    \/ \E present_ok \in BOOLEAN, fault \in BOOLEAN :
           RenderFrame(present_ok, fault)
    \/ \E sub \in in_flight : GpuFinish(sub)

SpecFrame == Init /\ [][NextFrame]_vars

(***************************************************************************)
(* SpecTexture: texture registration between frames.                       *)
(***************************************************************************)
TextureCommandLists ==
    { <<Cmd(Transparent, 0, 1, 1, SpriteA)>>,
      <<Cmd(Opaque, 2, 1, 1, QuadA)>> }

NextTexture ==
    \/ /\ TextureCreations < MaxTexCreates
       /\ \E t \in TextureInputs, a \in PitchAlignments :
              CreateGpuTexture(t.id, t.w, t.h, t.pixels, a)
    \/ GpuFinishCopy
    \/ CreateGpuTextureEnd
    \/ \E cmds \in TextureCommandLists : ProcessCommands(cmds)
    \/ (current_frame < 1 /\ in_flight = {} /\ RenderAcquire)
    \/ RenderFrame(TRUE, FALSE)
    \/ \E sub \in in_flight : GpuFinish(sub)

SpecTexture == Init /\ [][NextTexture]_vars

(***************************************************************************)
(* SpecCapacity: the frame loop of main (process_commands, then render)    *)
(* with the GPU running beside the CPU, where one of the last two of      *)
(* MaxCapacityFrames frames (one for each frame slot) draws MAX_SPRITES or *)
(* MAX_SPRITES + 1 requests of one key; a panic unwinds and drops the      *)
(* renderer.                                                               *)
(***************************************************************************)
Bulk(n) == [i \in 1 .. n |-> Cmd(Opaque, 2, 1, 1, QuadA)]

FullLists == {Bulk(MAX_SPRITES), Bulk(MAX_SPRITES + 1)}

\* The last call was render (or there was none): process_commands is next.
FrameStart == render_pc = "idle" /\ (repeated = "never" \/ log # <<>>)

NextCapacity ==
    \/ /\ FrameStart
       /\ current_frame < MaxCapacityFrames - 1
       /\ \E cmds \in FrameCommandLists : ProcessCommands(cmds)
    \/ /\ FrameStart
       /\ current_frame \in {MaxCapacityFrames - 2, MaxCapacityFrames - 1}
       /\ Len(commands) < MAX_SPRITES
       /\ \E cmds \in FullLists : ProcessCommands(cmds)
    \/ (~FrameStart /\ RenderAcquire)
    \/ \E fault \in BOOLEAN : RenderFrame(TRUE, fault)
    \/ \E sub \in in_flight : GpuFinish(sub)
    \/ Unwind
    \/ DropRendererEnd

SpecCapacity == Init /\ [][NextCapacity]_vars

(***************************************************************************)
(* SpecFrameLive: the window loop's frames (process_commands, then render) *)
(* where acquire and present may fail, the GPU eventually completes every  *)
(* submitted command buffer and the thread blocked in wait_for_fence goes  *)
(* on once the fence is signaled.                                          *)
(***************************************************************************)
RenderResumes ==
    \E present_ok \in BOOLEAN, fault \in BOOLEAN : RenderFrame(present_ok, fault)

\* The requests of a frame: none, or one quad.
LiveCommandLists == { <<>>, <<Cmd(Opaque, 2, 1, 1, QuadA)>> }

NextFrameLive ==
    \/ (FrameStart /\ \E cmds \in LiveCommandLists : ProcessCommands(cmds))
    \/ (~FrameStart /\ current_frame < MaxFrames /\ RenderAcquireFailed)
    \/ (~FrameStart /\ current_frame < MaxFrames /\ RenderAcquire)
    \/ RenderResumes
    \/ \E sub \in in_flight : GpuFinish(sub)

SpecFrameLive ==
    /\ Init
    /\ [][NextFrameLive]_vars
    /\ WF_vars(\E sub \in in_flight : GpuFinish(sub))
    /\ WF_vars(RenderResumes)

(***************************************************************************)
(* SpecLifetime: every operation of the renderer that the window loop and  *)
(* the game call, in any order: process_commands, create_gpu_texture,      *)
(* resize (which calls rebuild_swapchain) and render with acquire and      *)
(* present failures (which call rebuild_swapchain too) and                 *)
(* rebuild_swapchain on its own; one texture is registered, before the     *)
(* first frame is submitted, and the window is resized once.               *)
(***************************************************************************)
LifetimeCommandLists ==
    { <<Cmd(Opaque, 2, 1, 1, QuadA)>>,
      <<Cmd(Opaque, 1, 0, 0, QuadB)>> }

NextLifetime ==
    \/ \E cmds \in LifetimeCommandLists : ProcessCommands(cmds)
    \/ /\ textures = <<>>
       /\ current_frame = 0
       /\ \E t \in TextureInputs : CreateGpuTexture(t.id, t.w, t.h, t.pixels, 1)
    \/ GpuFinishCopy
    \/ CreateGpuTextureEnd
    \/ RebuildSwapchain
    \/ (last_resize = NoExtent /\ Resize(8, 6))
    \/ (current_frame < MaxLifetimeFrames /\ RenderAcquireFailed)
    \/ (current_frame < MaxLifetimeFrames /\ RenderAcquire)
    \/ \E present_ok \in BOOLEAN : RenderFrame(present_ok, FALSE)
    \/ \E sub \in in_flight : GpuFinish(sub)

SpecLifetime == Init /\ [][NextLifetime]_vars

(***************************************************************************)
(* SpecLoop: the window loop of window::run with the callbacks of main.    *)
(* The init callback registers the textures; every MainEventsCleared event *)
(* adds the frame time to the accumulator, runs one tick callback per      *)
(* target_dt in it, and runs the render callback, which pushes its own     *)
(* requests and passes the game's request list to process_commands and     *)
(* render.  game_commands is RenderState.commands, each request with the   *)
(* number of the loop iteration that pushed it.                            *)
(***************************************************************************)
target_dt == TimeUnitsPerTick

\* Frame times: less than a tick, one tick, more than two ticks (all under
\* the cap of 0.1 s, six ticks).
FrameTimes == {1, target_dt, 2 * target_dt + 1}

Made(cmds, made) == [i \in DOMAIN cmds |-> [cmd |-> cmds[i], made |-> made]]

\* RenderState::clear_commands
clear_commands(cmds) == <<>>

\* The tick callback: the request list is cleared, then the systems of the
\* tick dispatcher push their requests (here one sprite).
tick_callback(cmds, made) ==
    clear_commands(cmds) \o Made(<<Cmd(Transparent, 0, 1, 1, SpriteA)>>, made)

\* while accumulator >= target_dt { tick_callback(..); accumulator -= target_dt }
RECURSIVE RunTicks(_, _, _)
RunTicks(acc, cmds, made) ==
    IF acc >= target_dt
    THEN RunTicks(acc - target_dt, tick_callback(cmds, made), made)
    ELSE [accumulator |-> acc, commands |-> cmds]

\* The requests the render callback pushes itself (here one glyph of the
\* text and one background quad), before it calls process_commands.
render_callback(cmds, made) ==
    cmds \o Made(<<Cmd(Transparent, 3, 1, 1, SpriteA),
                   Cmd(Opaque, 2, 1, 1, QuadA)>>, made)

\* RenderState::commands: a clone of the list, as RenderCommands.
RenderStateCommands(cmds) == [i \in DOMAIN cmds |-> cmds[i].cmd]

\* The init callback of main, up to the wait of create_gpu_texture.
InitCallback ==
    /\ textures = <<>>
    /\ \E t \in {[id |-> 1, w |-> 2, h |-> 1, pixels |-> Pixels(2, 1, 0)]} :
           CreateGpuTexture(t.id, t.w, t.h, t.pixels, 1)

\* The window loop handles events once the swapchain has been rebuilt
\* after the init callback, and as long as the renderer is alive.
EventLoopRuns == swapchain # Unconfigured /\ FrameStart /\ ~panicked

\* MainEventsCleared up to the render callback's process_commands call.
MainEventsCleared(dt) ==
    /\ EventLoopRuns
    /\ iteration < MaxIterations
    /\ iteration' = iteration + 1
    /\ \E t \in {RunTicks(accumulator + dt, game_commands, iteration + 1)} :
        \E pushed \in {render_callback(t.commands, iteration + 1)} :
           /\ accumulator' = t.accumulator
           /\ game_commands' = pushed
           /\ ProcessCommandsStep(RenderStateCommands(pushed),
                                  Len(RenderStateCommands(pushed)))

NextLoop ==
    \/ InitCallback
    \/ GpuFinishCopy
    \/ CreateGpuTextureEnd
    \/ (textures # <<>> /\ swapchain = Unconfigured /\ RebuildSwapchain)
    \/ (EventLoopRuns /\ last_resize = NoExtent /\ Resize(8, 6))
    \/ (EventLoopRuns /\ DropRenderer)
    \/ DropRendererEnd
    \/ \E dt \in FrameTimes : MainEventsCleared(dt)
    \/ (~FrameStart /\ iteration > 0 /\ RenderAcquireFailed)
    \/ (~FrameStart /\ iteration > 0 /\ RenderAcquire)
    \/ \E present_ok \in BOOLEAN : RenderFrame(present_ok, FALSE)
    \/ \E sub \in in_flight : GpuFinish(sub)

SpecLoop == Init /\ [][NextLoop]_vars

(***************************************************************************)
(* SpecTeardown: the renderer's operations, ended by the drop of the       *)
(* renderer at any moment between two operations.  As in the window loop,  *)
(* the texture is registered before rebuild_swapchain is called on its     *)
(* own, and requests are processed and the window is resized after it.     *)
(***************************************************************************)
NextTeardown ==
    \/ (swapchain # Unconfigured
          /\ \E cmds \in LifetimeCommandLists : ProcessCommands(cmds))
    \/ /\ textures = <<>>
       /\ swapchain = Unconfigured
       /\ \E t \in TextureInputs : CreateGpuTexture(t.id, t.w, t.h, t.pixels, 1)
    \/ GpuFinishCopy
    \/ CreateGpuTextureEnd
    \/ (swapchain = Unconfigured /\ RebuildSwapchain)
    \/ (swapchain # Unconfigured /\ last_resize = NoExtent /\ Resize(8, 6))
    \/ (current_frame < MaxTeardownFrames /\ RenderAcquireFailed)
    \/ (current_frame < MaxTeardownFrames /\ RenderAcquire)
    \/ \E present_ok \in BOOLEAN : RenderFrame(present_ok, FALSE)
    \/ \E sub \in in_flight : GpuFinish(sub)
    \/ (~panicked /\ DropRenderer)
    \/ DropRendererEnd

SpecTeardown == Init /\ [][NextTeardown]_vars

(***************************************************************************)
(* SpecPool: process_commands with request lists of many distinct keys of  *)
(* one shader program, up to one more than a descriptor pool was created   *)
(* for, and with lists of a few keys of every program; the device answers  *)
(* each descriptor set allocation with a set or with an error.             *)
(***************************************************************************)
\* n requests with n distinct keys of program p (layers and texture ids).
ManyKeys(p, n) == [i \in 1 .. n |-> Cmd(Opaque, i % 256, p, i \div 256, QuadA)]

\* Lists that nearly fill, fill and overfill the pool of program 1.
PoolLists ==
    { ManyKeys(1, n) :
        n \in {MAX_DESCRIPTOR_SETS - 1, MAX_DESCRIPTOR_SETS,
               MAX_DESCRIPTOR_SETS + 1} }

\* Lists of one or two keys of each program.
FewKeysLists == { ManyKeys(p, n) : p \in DOMAIN shader_programs, n \in {1, 2} }

\* The allocations the device answers with a set in a call with the list
\* cmds: enough for every request, or one less.
GrantedFor(cmds) == {Len(cmds) - 1, Len(cmds)}

NextPool ==
    \/ /\ Len(commands) <= 2
       /\ \E cmds \in FewKeysLists :
              \E granted \in GrantedFor(cmds) : ProcessCommandsOn(cmds, granted)
    \/ /\ repeated = "never" \/ Len(commands) > 2
       /\ \E cmds \in PoolLists :
              \E granted \in GrantedFor(cmds) : ProcessCommandsOn(cmds, granted)

SpecPool == Init /\ [][NextPool]_vars

(***************************************************************************)
(* SpecMap: update_buffer on its own, call by call, where map_memory and   *)
(* flush_mapped_memory_ranges may return an error.                         *)
(***************************************************************************)
\* The device calls of one update_buffer call.  map_ok, flush_ok: what
\* map_memory and flush_mapped_memory_ranges return; both results are
\* unwrapped, so an error ends the call with a panic at that point.
update_buffer_steps(buffer_memory, frame_idx, buffer_frame_size, count, size_of, map_ok, flush_ok) ==
    LET Step(op) == Ev(op, frame_idx, buffer_memory,
                       frame_idx * buffer_frame_size, count * size_of,
                       buffer_frame_size)
    IN  IF ~map_ok THEN <<Step("map_memory_failed")>>
        ELSE IF ~flush_ok
        THEN <<Step("map_memory"), Step("copy_nonoverlapping"),
               Step("flush_mapped_memory_ranges_failed")>>
        ELSE <<Step("map_memory"), Step("copy_nonoverlapping"),
               Step("flush_mapped_memory_ranges"), Step("unmap_memory")>>

\* The memories that are mapped after the device calls, when those of the
\* set m were mapped before.
RECURSIVE MappedAfter(_, _)
MappedAfter(m, calls) ==
    IF calls = <<>> THEN m
    ELSE LET e == Head(calls)
         IN  MappedAfter(IF e.op = "map_memory" THEN m \cup {e.buf}
                         ELSE IF e.op = "unmap_memory" THEN m \ {e.buf}
                         ELSE m,
                         Tail(calls))

\* One update_buffer call; the log keeps the calls of all of them.
UpdateBuffer(buffer_memory, frame_idx, count, map_ok, flush_ok) ==
    /\ ~panicked
    /\ render_pc = "idle"
    /\ Cardinality({n \in DOMAIN log :
           log[n].op \in {"map_memory", "map_memory_failed"}}) < MaxMapCalls
    /\ \E calls \in {update_buffer_steps(buffer_memory, frame_idx, SizeOfUbo,
                                         count, SizeOfUbo, map_ok, flush_ok)} :
          /\ log' = log \o calls
          /\ mapped' = MappedAfter(mapped, calls)
          /\ panicked' = (~map_ok \/ ~flush_ok)
    /\ UNCHANGED <<batches, textures, current_frame, frame_fences,
                   desc_allocated, next_handle, destroyed, in_flight,
                   render_pc, images, commands, cmd_keys, batch_keys,
                   repeated, last_present, swap_vars,
                   mesh_vars, gpu_reads, sync_vars, game_vars,
                   tex_vars, pure_vars, click_vars, clock_vars>>

NextMap ==
    \E buffer_memory \in {uniform_buffer[2], 4}, frame_idx \in Slots,
       count \in {0, 1}, map_ok \in BOOLEAN, flush_ok \in BOOLEAN :
        UpdateBuffer(buffer_memory, frame_idx, count, map_ok, flush_ok)

SpecMap == Init /\ [][NextMap]_vars

(***************************************************************************)
(* The staging layout of create_gpu_texture on its own, over widths,       *)
(* heights and pitch alignments up to the ends of the u32 range.           *)
(***************************************************************************)
LayoutWidths == {1, 2, 3, 4, 5, 2 ^ 28, 2 ^ 29, 2 ^ 30, 2 ^ 30 + 1}

LayoutHeights == {1, 2, 3, 4}

LayoutAlignments == {1, 4, 16, 256}

CreateGpuTextureLayout(w, h, alignment, overflow_checks) ==
    /\ pure_call' = [op |-> "create_gpu_texture", w |-> w, h |-> h,
                     alignment |-> alignment,
                     overflow_checks |-> overflow_checks,
                     out |-> UploadLayout(w, h, alignment, overflow_checks)]
    /\ UNCHANGED <<batches, textures, current_frame, frame_fences,
                   desc_allocated, next_handle, destroyed, in_flight,
                   render_pc, log, images, commands, cmd_keys, batch_keys,
                   repeated, panicked, last_present, swap_vars,
                   mesh_vars, gpu_reads, sync_vars, game_vars,
                   tex_vars, map_vars, click_vars, clock_vars>>

NextLayout ==
    \E w \in LayoutWidths, h \in LayoutHeights, a \in LayoutAlignments,
       overflow_checks \in BOOLEAN :
        CreateGpuTextureLayout(w, h, a, overflow_checks)

SpecLayout == Init /\ [][NextLayout]_vars

(***************************************************************************)
(* create_buffer on its own: the choice of the memory type.  Property      *)
(* flags are bit sets (DEVICE_LOCAL = 1, CPU_VISIBLE = 2, COHERENT = 4);   *)
(* memory type ids count from 0 as in the code.                            *)
(***************************************************************************)
\* Variant: the type mask of the buffer is not looked at.
type_supportedAlways(type_mask, id) == TRUE

\* mem_requirements.type_mask & (1_u64 << id) != 0
type_supported(type_mask, id) == (type_mask \div (2 ^ id)) % 2 = 1

\* ty.properties.contains(properties)
contains(ty_properties, properties) ==
    BitAnd(ty_properties, properties) = properties

\* memory_types.iter().enumerate().find(..): the first id from position
\* `from` on that passes the test, -1 when there is none.
RECURSIVE find(_, _, _, _)
find(memory_types, type_mask, properties, from) ==
    IF from >= Len(memory_types) THEN -1
    ELSE IF /\ type_supported(type_mask, from)
            /\ contains(memory_types[from + 1], properties)
         THEN from
         ELSE find(memory_types, type_mask, properties, from + 1)

\* create_buffer: the device calls it makes, whether it panicked and what
\* it returned (the buffer is handle 1, its memory handle 2).
create_buffer(memory_types, type_mask, properties, buffer_len) ==
    IF buffer_len = 0
    THEN [panicked |-> TRUE, calls |-> <<>>, returned |-> <<>>]
    ELSE LET upload_type == find(memory_types, type_mask, properties, 0)
             made == <<[op |-> "create_buffer", arg |-> buffer_len],
                       [op |-> "get_buffer_requirements", arg |-> 1]>>
         IN  IF upload_type = -1
             THEN [panicked |-> TRUE, calls |-> made, returned |-> <<>>]
             ELSE [panicked |-> FALSE,
                   calls |-> made \o
                       <<[op |-> "allocate_memory", arg |-> upload_type],
                         [op |-> "bind_buffer_memory", arg |-> 2]>>,
                   returned |-> <<1, 2>>]

PropertyFlags == {1, 2, 6}

MemoryTypeLists ==
    UNION {[1 .. n -> PropertyFlags \cup {0}] : n \in 0 .. MaxMemoryTypes}

CreateBuffer(memory_types, type_mask, properties, buffer_len) ==
    /\ pure_call' = [op |-> "create_buffer", memory_types |-> memory_types,
                     type_mask |-> type_mask, properties |-> properties,
                     buffer_len |-> buffer_len,
                     out |-> create_buffer(memory_types, type_mask,
                                           properties, buffer_len)]
    /\ UNCHANGED <<batches, textures, current_frame, frame_fences,
                   desc_allocated, next_handle, destroyed, in_flight,
                   render_pc, log, images, commands, cmd_keys, batch_keys,
                   repeated, panicked, last_present, swap_vars,
                   mesh_vars, gpu_reads, sync_vars, game_vars,
                   tex_vars, map_vars, click_vars, clock_vars>>

\* One call for each run.
NextBuffer ==
    /\ pure_call.op = "none"
    /\ \E memory_types \in MemoryTypeLists,
          type_mask \in 0 .. (2 ^ MaxMemoryTypes - 1),
          properties \in PropertyFlags, buffer_len \in {0, 8} :
           CreateBuffer(memory_types, type_mask, properties, buffer_len)

SpecBuffer == Init /\ [][NextBuffer]_vars

(***************************************************************************)
(* ClickableSystem::run.                                                   *)
(***************************************************************************)
\* Variant: a click is reported in every run in which the cursor is over
\* the entity and the button is held.
run_clickableEveryRun(state, is_hit, is_held) ==
    IF is_hit /\ is_held THEN [state |-> "Clicked", event |-> TRUE]
    ELSE [state |-> IF is_hit THEN "Hovered" ELSE "Normal", event |-> FALSE]

\* The body of the loop over the joined entities: the new state of one
\* entity and whether an OnClickedEvent is written for it.
run_clickable(state, is_hit, is_held) ==
    IF is_hit
    THEN IF is_held
         THEN IF state # "Clicked"
              THEN [state |-> "Clicked", event |-> TRUE]
              ELSE [state |-> state, event |-> FALSE]
         ELSE IF state # "Hovered"
              THEN [state |-> "Hovered", event |-> FALSE]
              ELSE [state |-> state, event |-> FALSE]
    ELSE IF state # "Normal"
         THEN [state |-> "Normal", event |-> FALSE]
         ELSE [state |-> state, event |-> FALSE]

\* One run of the system: cursor_hit_ents are the ids of the entities whose
\* collider holds the cursor position, held is is_mouse_button_held(Left).
\* The join visits the entities that exist in the order of their ids.
ClickableSystemRun(cursor_hit_ents, held) ==
    /\ clickables' =
          [id \in DOMAIN clickables |->
              run_clickable(clickables[id], id \in cursor_hit_ents,
                            held).state]
    /\ LET Written(id) ==
               /\ id \in DOMAIN clickables
               /\ run_clickable(clickables[id], id \in cursor_hit_ents,
                                held).event
           joined == SelectSeq([i \in 1 .. NumClickables |-> i], Written)
       IN  /\ click_run' =
                 [op |-> "run",
                  cursor_hit_ents |-> cursor_hit_ents, held |-> held,
                  before |-> clickables,
                  events |-> [n \in DOMAIN joined |->
                                 EntityAt(generation, joined[n])]]
           /\ streak_events' =
                 [ent \in DOMAIN streak_events |->
                     IF ent.id \in cursor_hit_ents /\ held
                     THEN streak_events[ent]
                            + (IF Written(ent.id) THEN 1 ELSE 0)
                     ELSE 0]
           /\ index_events' =
                 [id \in Entities |->
                     IF id \in cursor_hit_ents /\ held
                     THEN index_events[id] + (IF Written(id) THEN 1 ELSE 0)
                     ELSE 0]
    /\ UNCHANGED <<batches, textures, current_frame, frame_fences,
                   desc_allocated, next_handle, destroyed, in_flight,
                   render_pc, log, images, commands, cmd_keys, batch_keys,
                   repeated, panicked, last_present, swap_vars,
                   mesh_vars, gpu_reads, sync_vars, game_vars,
                   tex_vars, map_vars, pure_vars, clock_vars, generation>>

\* create_activity_ents: world.delete_all and world.maintain delete every
\* entity, then one entity with ClickableComponent::new() (state Normal) is
\* built for each activity whose conditions hold, none when the game is
\* over.  ids are the indices the allocator gives the new entities: any
\* indices, each with the next generation of the index.
create_activity_ents(ids) ==
    /\ \A id \in ids : generation[id] < MaxGenerations
    /\ generation' = [id \in Entities |->
                         generation[id] + (IF id \in ids THEN 1 ELSE 0)]
    /\ clickables' = [id \in ids |-> "Normal"]
    /\ streak_events' = [ent \in {EntityAt(generation', id) : id \in ids} |-> 0]
    /\ click_run' = [op |-> "rebuild", cursor_hit_ents |-> {},
                     held |-> FALSE, before |-> clickables,
                     events |-> <<>>]
    /\ UNCHANGED <<index_events,
                   batches, textures, current_frame, frame_fences,
                   desc_allocated, next_handle, destroyed, in_flight,
                   render_pc, log, images, commands, cmd_keys, batch_keys,
                   repeated, panicked, last_present, swap_vars,
                   mesh_vars, gpu_reads, sync_vars, game_vars,
                   tex_vars, map_vars, pure_vars, clock_vars>>

(***************************************************************************)
(* SpecClick: create_activity_ents calls, which build the entities that    *)
(* have a ClickableComponent, and runs of ClickableSystem with any cursor  *)
(* position and button state.                                              *)
(***************************************************************************)
NextClick ==
    \/ \E cursor_hit_ents \in SUBSET Entities, held \in BOOLEAN :
           ClickableSystemRun(cursor_hit_ents, held)
    \/ \E ids \in SUBSET Entities : create_activity_ents(ids)

SpecClick == Init /\ [][NextClick]_vars

(***************************************************************************)
(* TimeSystem::run and TimeOfDay::progress.                                *)
(***************************************************************************)
\* TimeOfDay::progress
progress(time_of_day) ==
    IF time_of_day = "Morning" THEN "Afternoon"
    ELSE IF time_of_day = "Afternoon" THEN "Night"
    ELSE IF time_of_day = "Night" THEN "Morning"
    ELSE time_of_day

\* Variant: the time of day moves on only when more than four hours passed.
progress_timeLate(t, hours) ==
    IF t.hours_passed + hours > 4
    THEN [day |-> IF progress(t.time_of_day) = "Morning"
                  THEN t.day + 1 ELSE t.day,
          time_of_day |-> progress(t.time_of_day),
          hours_passed |-> t.hours_passed + hours - 4]
    ELSE [t EXCEPT !.hours_passed = t.hours_passed + hours]

\* The arm GameEvent::ProgressTime { hours } of the loop over the events.
progress_time(t, hours) ==
    IF t.hours_passed + hours >= 4
    THEN [day |-> IF progress(t.time_of_day) = "Morning"
                  THEN t.day + 1 ELSE t.day,
          time_of_day |-> progress(t.time_of_day),
          hours_passed |-> t.hours_passed + hours - 4]
    ELSE [t EXCEPT !.hours_passed = t.hours_passed + hours]

\* One event of the loop: every other event leaves the TimeState alone.
handle_event(t, event) ==
    IF event.kind = "ProgressTime" THEN progress_time(t, event.hours) ELSE t

\* The TimeState after each event of the list, in order.
RECURSIVE TimeTrace(_, _)
TimeTrace(t, events) ==
    IF events = <<>> THEN <<>>
    ELSE <<handle_event(t, Head(events))>>
         \o TimeTrace(handle_event(t, Head(events)), Tail(events))

\* The events the run writes after the loop.
TimeEventsWritten(before, trace) ==
    LET states == <<before>> \o trace
        steps == {i \in 1 .. Len(trace) :
                     states[i + 1].time_of_day # states[i].time_of_day}
        days == {i \in steps : states[i + 1].time_of_day = "Morning"}
        last == states[Len(states)]
    IN  (IF days # {}
         THEN <<[kind |-> "NewDayStarted", day |-> last.day]>> ELSE <<>>)
        \o (IF steps # {}
            THEN <<[kind |-> "NewTimeOfDayStarted",
                    time_of_day |-> last.time_of_day]>>
            ELSE <<>>)

\* One run of the system over the events written since its last run.
TimeSystemRun(events) ==
    /\ time.day < MaxDays
    /\ \E trace \in {TimeTrace(time, events)} :
          /\ time' = IF trace = <<>> THEN time ELSE trace[Len(trace)]
          /\ time_run' = [before |-> time, events |-> events,
                          trace |-> trace,
                          written |-> TimeEventsWritten(time, trace)]
    /\ UNCHANGED <<batches, textures, current_frame, frame_fences,
                   desc_allocated, next_handle, destroyed, in_flight,
                   render_pc, log, images, commands, cmd_keys, batch_keys,
                   repeated, panicked, last_present, swap_vars,
                   mesh_vars, gpu_reads, sync_vars, game_vars,
                   tex_vars, map_vars, pure_vars, click_vars>>

\* hours_required of the activities of create_activities.
ActivityHours == {0, 1, 2, 3}

\* The events a run can read: ProgressTime of an activity, or another one.
GameEvents ==
    {[kind |-> "ProgressTime", hours |-> h] : h \in ActivityHours}
        \cup {[kind |-> "RefreshActivities", hours |-> 0]}

NextClock ==
    \E n \in 0 .. MaxTimeEvents : \E events \in [1 .. n -> GameEvents] :
        TimeSystemRun(events)

SpecClock == Init /\ [][NextClock]_vars

(***************************************************************************)
(* SpecUniform: create_uniform_buffer for a uniform type of any size from  *)
(* UboSizes, followed by up to MaxUploads uploads of one value of that     *)
(* type for either frame index.                                            *)
(***************************************************************************)
UboSizes == (1 .. MaxUboSize) \cup {SizeOfUbo}

\* create_uniform_buffer<T>(ubo) with size_of::<T>() = size_of: the buffer
\* holds one frame region for each frame in flight, and the value is
\* written to the region of frame index 0.
CreateUniformBuffer(size_of) ==
    /\ ~panicked
    /\ render_pc = "idle"
    /\ log = <<>>
    /\ log' = << Ev("create_buffer", -1, uniform_buffer[2], 0,
                    size_of * FramesInFlight, size_of),
                 update_buffer(uniform_buffer[2], 0, size_of, 1, size_of) >>
    /\ UNCHANGED <<batches, textures, current_frame, frame_fences,
                   desc_allocated, next_handle, destroyed, in_flight,
                   render_pc, images, commands, cmd_keys, batch_keys,
                   repeated, panicked, last_present, swap_vars,
                   mesh_vars, gpu_reads, sync_vars, game_vars,
                   tex_vars, unit_vars>>

\* update_buffer(&uniform_buffer.1, frame_idx, uniform_buffer.2, device,
\* &[ubo]), as render calls it.
UniformUpload(frame_idx) ==
    /\ ~panicked
    /\ render_pc = "idle"
    /\ log # <<>>
    /\ log[1].op = "create_buffer"
    /\ Len(log) < MaxUploads + 2
    /\ log' = Append(log, update_buffer(uniform_buffer[2], frame_idx,
                              log[1].stride, 1, log[1].stride))
    /\ UNCHANGED <<batches, textures, current_frame, frame_fences,
                   desc_allocated, next_handle, destroyed, in_flight,
                   render_pc, images, commands, cmd_keys, batch_keys,
                   repeated, panicked, last_present, swap_vars,
                   mesh_vars, gpu_reads, sync_vars, game_vars,
                   tex_vars, unit_vars>>

NextUniform ==
    \/ \E size_of \in UboSizes : CreateUniformBuffer(size_of)
    \/ \E frame_idx \in Slots : UniformUpload(frame_idx)

SpecUniform == Init /\ [][NextUniform]_vars

(***************************************************************************)
(* SpecResize: the event loop with window resizes between render calls,    *)
(* a surface that may prescribe its extent, and up to MaxResizeFrames      *)
(* frames.                                                                 *)
(***************************************************************************)
\* Sizes given to resize, <<width, height>>.
WindowSizes == {<<4, 3>>, <<8, 6>>, <<2, 5>>}

\* Extents the surface prescribes.
SurfaceExtents == {NoExtent, <<8, 6>>, <<6, 6>>}

NextResize ==
    \/ \E size \in WindowSizes : Resize(size[1], size[2])
    \/ \E extent \in SurfaceExtents : SurfaceChanged(extent)
    \/ (current_frame < MaxResizeFrames /\ RenderAcquireFailed)
    \/ (current_frame < MaxResizeFrames /\ RenderAcquire)
    \/ \E present_ok \in BOOLEAN : RenderFrame(present_ok, FALSE)
    \/ \E sub \in in_flight : GpuFinish(sub)

SpecResize == Init /\ [][NextResize]_vars

(***************************************************************************)
(* SpecPanic: process_commands on lists that may hold a request for a      *)
(* shader program that is not registered, before and after a first frame.  *)
(***************************************************************************)
\* Sorts after the opaque requests of layer 2 and before the transparent.
BadRequest == Cmd(Opaque, 3, 3, 1, QuadA)

PanicLists ==
    SeqsUpTo({ Cmd(Opaque, 2, 1, 1, QuadA), BadRequest,
               Cmd(Transparent, 0, 0, 0, SpriteA) }, MaxCmds)

NextPanic ==
    \/ /\ in_flight = {}
       /\ \E cmds \in PanicLists : ProcessCommands(cmds)
    \/ /\ in_flight = {}
       /\ current_frame < 1
       /\ RenderAcquire
    \/ RenderFrame(TRUE, FALSE)
    \/ \E sub \in in_flight : GpuFinish(sub)
    \/ Unwind
    \/ DropRendererEnd

SpecPanic == Init /\ [][NextPanic]_vars

(***************************************************************************)
(* SpecMesh: the mesh functions add_quad and add_sprite applied to a mesh  *)
(* of up to MaxMeshQuads quads, over corner sets, atlas regions and atlas  *)
(* sizes.                                                                  *)
(***************************************************************************)
\* add_quad and add_sprite calls on the mesh since it was last cleared
\* (or made), and whether it was ever cleared, as the last call recorded.
CallsSinceClear(call) == IF call.op \in {"new", "clear"} THEN 0 ELSE call.count

WasCleared(call) == call.op = "clear" \/ (call.op # "new" /\ call.cleared)

\* Mesh::clear
ClearMesh ==
    /\ ~panicked
    /\ free_mesh # EmptyMesh
    /\ free_mesh' = MeshClear(free_mesh)
    /\ mesh_call' = [op |-> "clear", before |-> free_mesh]
    /\ UNCHANGED <<batches, textures, current_frame, frame_fences,
                   desc_allocated, next_handle, destroyed, in_flight,
                   render_pc, log, images, commands, cmd_keys, batch_keys,
                   repeated, panicked, last_present, swap_vars, gpu_reads,
                   sync_vars, game_vars,
                   tex_vars, unit_vars>>

AddQuad(bl, br, tl, tr, color) ==
    /\ ~panicked
    /\ Len(free_mesh.vertices) < 4 * MaxMeshQuads
    /\ free_mesh' = add_quad(free_mesh, bl, br, tl, tr, color)
    /\ mesh_call' = [op |-> "add_quad", args |-> <<bl, br, tl, tr, color>>,
                     before |-> free_mesh,
                     count |-> CallsSinceClear(mesh_call) + 1,
                     cleared |-> WasCleared(mesh_call)]
    /\ UNCHANGED <<batches, textures, current_frame, frame_fences,
                   desc_allocated, next_handle, destroyed, in_flight,
                   render_pc, log, images, commands, cmd_keys, batch_keys,
                   repeated, panicked, last_present, swap_vars, gpu_reads, sync_vars, game_vars,
                   tex_vars, unit_vars>>

AddSprite(x, y, pivot, scale, color, region, sheet_w, sheet_h) ==
    /\ ~panicked
    /\ Len(free_mesh.vertices) < 4 * MaxMeshQuads
    /\ free_mesh' = add_sprite(free_mesh, x, y, pivot, scale, color, region,
                               sheet_w, sheet_h)
    /\ mesh_call' = [op |-> "add_sprite",
                     args |-> <<x, y, pivot, scale, color, region,
                                sheet_w, sheet_h>>,
                     before |-> free_mesh,
                     count |-> CallsSinceClear(mesh_call) + 1,
                     cleared |-> WasCleared(mesh_call)]
    /\ UNCHANGED <<batches, textures, current_frame, frame_fences,
                   desc_allocated, next_handle, destroyed, in_flight,
                   render_pc, log, images, commands, cmd_keys, batch_keys,
                   repeated, panicked, last_present, swap_vars, gpu_reads, sync_vars, game_vars,
                   tex_vars, unit_vars>>

\* Regions of a sprite sheet, in pixels.
AtlasRegions ==
    { [x |-> 16, y |-> 32, w |-> 8, h |-> 8],
      [x |-> 0, y |-> 0, w |-> 1, h |-> 1],
      [x |-> 1, y |-> 2, w |-> 2, h |-> 1],
      [x |-> 32, y |-> 16, w |-> 5, h |-> 3] }

\* Sizes of a sprite sheet, <<width, height>>, both positive.
AtlasSizes == {<<128, 128>>, <<128, 64>>, <<3, 7>>, <<1, 2>>}

NextMesh ==
    \/ \E q \in {QuadA, QuadB} : AddQuad(q.bl, q.br, q.tl, q.tr, q.color)
    \/ ClearMesh
    \/ \E region \in AtlasRegions, size \in AtlasSizes :
           AddSprite(SpriteA.x, SpriteA.y, SpriteA.pivot, SpriteA.scale,
                     SpriteA.color, region, size[1], size[2])

SpecMesh == Init /\ [][NextMesh]_vars

(***************************************************************************)
(* Definitions used by the properties.                                     *)
(***************************************************************************)
KeyFields(c) == <<c.transparency, c.layer, c.shader_program_id, c.tex_id>>

\* a is lexicographically smaller than b (tuples of the same length)
LexLess(a, b) ==
    \E i \in DOMAIN a :
        /\ a[i] < b[i]
        /\ \A j \in 1 .. (i - 1) : a[j] = b[j]

\* The last call made to the renderer was process_commands and it returned.
AfterProcessCommands == repeated # "never" /\ log = <<>> /\ ~panicked

\* The requests of the last process_commands call that have key k, in the
\* order of submission.
WithKey(k) == SelectSeq(commands, LAMBDA c : RenderCommandKey(c) = k)

\* The four vertices that the geometry builder makes of request c in batch b.
Geometry(b, c) ==
    process_command([b EXCEPT !.batch_mesh = EmptyMesh], c).batch_mesh.vertices

\* The quads of a mesh: its vertices in groups of four.
QuadAt(vertices, n) == SubSeq(vertices, 4 * n - 3, 4 * n)

QuadsOf(vertices) ==
    {QuadAt(vertices, n) : n \in 1 .. (Len(vertices) \div 4)}

\* How often quad q occurs in the vertex list.
QuadCount(vertices, q) ==
    Cardinality({n \in 1 .. (Len(vertices) \div 4) : QuadAt(vertices, n) = q})

\* The quads of the requests rs built in batch b, one after the other.
InOrder(b, rs) ==
    [j \in 1 .. (4 * Len(rs)) |->
        Geometry(b, rs[((j - 1) \div 4) + 1])[((j - 1) % 4) + 1]]

(***************************************************************************)
(* C1: after process_commands returns, for every key k of a request the    *)
(* batch stored under k holds the geometry of exactly the requests with    *)
(* key k (4 vertices and 6 indices for each, nothing from earlier frames), *)
(* and no other batch holds a quad of these requests.                      *)
(***************************************************************************)
C1_GeometryInOneBatch ==
    AfterProcessCommands =>
        \A i \in DOMAIN commands :
            \A k \in {RenderCommandKey(commands[i])} :
                /\ k \in DOMAIN batches
                /\ \A b \in {batches[k]}, rs \in {WithKey(k)} :
                    /\ Len(b.batch_mesh.vertices) = 4 * Len(rs)
                    /\ Len(b.batch_mesh.indices) = 6 * Len(rs)
                    /\ \A j \in DOMAIN rs :
                        \A q \in {Geometry(b, rs[j])} :
                            /\ QuadCount(b.batch_mesh.vertices, q)
                                 = Cardinality({m \in DOMAIN rs :
                                        Geometry(b, rs[m]) = q})
                            /\ \A k2 \in DOMAIN batches \ {k} :
                                 q \notin QuadsOf(batches[k2].batch_mesh.vertices)

\* Two requests with the same key and one with another key have been
\* batched, on top of a batch map that already held their batches.
C1_Witness ==
    /\ AfterProcessCommands
    /\ Len(commands) = 2
    /\ cmd_keys[1] = cmd_keys[2]
    /\ commands[1] # commands[2]
    /\ Cardinality(DOMAIN batches) = 2
    /\ current_frame > 0
    /\ Len(batches[cmd_keys[1]].batch_mesh.vertices) = 8

(***************************************************************************)
(* C2: key(A) < key(B) exactly when (transparency, layer, program,         *)
(* texture) of A is lexicographically smaller than that of B; so an opaque *)
(* request's key is below every transparent request's key.                 *)
(***************************************************************************)
C2_KeyOrderIsLexicographic ==
    Len(cmd_keys) = 2 /\ Len(commands) = 2 =>
        /\ Lt64(cmd_keys[1], cmd_keys[2])
             <=> LexLess(KeyFields(commands[1]), KeyFields(commands[2]))
        /\ (commands[1].transparency = Opaque
              /\ commands[2].transparency = Transparent)
             => Lt64(cmd_keys[1], cmd_keys[2])

\* An opaque request with the highest layer, program and texture against a
\* transparent one with the lowest.
C2_Witness ==
    /\ repeated = "never"
    /\ Len(cmd_keys) = 2
    /\ KeyFields(commands[1]) = <<Opaque, 255, 65535, 65535>>
    /\ KeyFields(commands[2]) = <<Transparent, 0, 0, 0>>
    /\ Lt64(cmd_keys[1], cmd_keys[2])

(***************************************************************************)
(* C3: two requests have the same key if and only if they agree on         *)
(* transparency, layer, shader program and texture.                        *)
(***************************************************************************)
C3_KeyIsInjective ==
    Len(cmd_keys) = 2 /\ Len(commands) = 2 =>
        (cmd_keys[1] = cmd_keys[2]
            <=> KeyFields(commands[1]) = KeyFields(commands[2]))

\* Two requests that differ only in the texture, at the top of the other
\* fields' ranges, have different keys.
C3_Witness ==
    /\ repeated = "never"
    /\ Len(cmd_keys) = 2
    /\ KeyFields(commands[1]) = <<Transparent, 255, 65535, 65535>>
    /\ KeyFields(commands[2]) = <<Transparent, 255, 65535, 1>>
    /\ cmd_keys[1] # cmd_keys[2]

(***************************************************************************)
(* C4: the key list returned by process_commands is strictly ascending and *)
(* holds each distinct key of the requests exactly once; so opaque batches *)
(* come before transparent ones.                                           *)
(***************************************************************************)
C4_KeyListAscendingDistinct ==
    AfterProcessCommands =>
        /\ \A i \in 1 .. (Len(batch_keys) - 1) :
               Lt64(batch_keys[i], batch_keys[i + 1])
        /\ {batch_keys[i] : i \in DOMAIN batch_keys}
             = {RenderCommandKey(commands[i]) : i \in DOMAIN commands}
        /\ Len(batch_keys)
             = Cardinality({RenderCommandKey(commands[i]) : i \in DOMAIN commands})
        /\ (commands = <<>> => batch_keys = <<>>)
        /\ \A i \in DOMAIN batch_keys, j \in DOMAIN batch_keys :
               (/\ batches[batch_keys[i]].transparency = Opaque
                /\ batches[batch_keys[j]].transparency = Transparent) => i < j

\* A transparent request submitted before an opaque one of a higher layer:
\* the returned list has the opaque key first.
C4_Witness ==
    /\ AfterProcessCommands
    /\ Len(commands) = 2
    /\ commands[1].transparency = Transparent
    /\ commands[2].transparency = Opaque
    /\ batch_keys = <<cmd_keys[2], cmd_keys[1]>>

(***************************************************************************)
(* C5: inside a batch the quads are in the order in which their requests   *)
(* were given to process_commands.                                         *)
(***************************************************************************)
C5_SubmissionOrderKept ==
    AfterProcessCommands =>
        \A i \in DOMAIN commands :
            \A k \in {RenderCommandKey(commands[i])} :
                k \in DOMAIN batches =>
                    batches[k].batch_mesh.vertices
                        = InOrder(batches[k], WithKey(k))

\* Two different requests with the same key, the red quad first.
C5_Witness ==
    /\ AfterProcessCommands
    /\ Len(commands) = 2
    /\ cmd_keys[1] = cmd_keys[2]
    /\ commands[1].data = QuadB
    /\ commands[2].data = QuadA
    /\ batches[cmd_keys[1]].batch_mesh.vertices[1].color = "red"

(***************************************************************************)
(* C6: process_commands called again with the same single request returns  *)
(* the same key, keeps the one batch with the buffers and the descriptor   *)
(* set it had, and leaves exactly one quad in its mesh.                    *)
(***************************************************************************)
C6_SameRequestNextFrame ==
    [][ \A c \in Requests :
          (ProcessCommands(<<c>>) /\ commands = <<c>> /\ repeated # "never")
          => \A k \in {RenderCommandKey(c)} :
               /\ batch_keys = <<k>>
               /\ batch_keys' = <<k>>
               /\ DOMAIN batches' = DOMAIN batches
               /\ batches'[k].vertex_buffer = batches[k].vertex_buffer
               /\ batches'[k].index_buffer = batches[k].index_buffer
               /\ batches'[k].descriptor_set = batches[k].descriptor_set
               /\ batches'[k].descriptor_writes = batches[k].descriptor_writes
               /\ desc_allocated' = desc_allocated
               /\ next_handle' = next_handle
               /\ Len(batches'[k].batch_mesh.vertices) = 4
               /\ Len(batches'[k].batch_mesh.indices) = 6 ]_vars

\* The same single request in two calls, a render call that drew it between
\* them, and one quad in the mesh.
C6_Witness ==
    /\ AfterProcessCommands
    /\ repeated = "yes"
    /\ Len(commands) = 1
    /\ current_frame > 0
    /\ Len(batches[cmd_keys[1]].batch_mesh.vertices) = 4

\* The bytes [offset, offset + len) written by e reach into the region of
\* frame slot j of the buffer.
WritesSlot(e, j) ==
    /\ e.len > 0
    /\ e.offset < (j + 1) * e.stride
    /\ e.offset + e.len > j * e.stride

(***************************************************************************)
(* C7: in a render call every update_buffer for frame slot i comes after   *)
(* wait_for_fence on slot i has returned, and no update_buffer writes into *)
(* the region of a slot whose queue submission the GPU has not finished.   *)
(***************************************************************************)
C7_NoWriteWhileSlotInFlight ==
    \A n \in DOMAIN log :
        \A e \in {log[n]} :
            e.op = "update_buffer" =>
                /\ \E m \in 1 .. (n - 1) :
                       log[m].op = "wait_for_fence" /\ log[m].slot = e.slot
                /\ \A j \in e.busy : ~WritesSlot(e, j)

\* The operations of a call log, in order.
Ops(l) == [n \in DOMAIN l |-> l[n].op]

\* How often operation op occurs in the log.
OpCount(l, op) == Cardinality({n \in DOMAIN l : l[n].op = op})

\* The events of a render call that are not recorded per batch.
FrameOps(l) ==
    Ops(SelectSeq(l, LAMBDA e :
        /\ e.op \notin {"take_mesh", "bind_graphics_pipeline",
                        "bind_vertex_buffers", "bind_index_buffer",
                        "bind_graphics_descriptor_sets", "draw_indexed"}
        /\ (e.op = "update_buffer" => e.buf = uniform_buffer[2])))

\* The calls of a render call on its normal path, up to the present.
NormalPath ==
    << "acquire_image", "create_framebuffer", "wait_for_fence", "reset_fence",
       "reset_command_pool", "update_buffer", "begin_primary",
       "begin_render_pass", "end_render_pass", "finish", "submit" >>

(***************************************************************************)
(* C8: a render call whose image acquisition fails rebuilds the swapchain  *)
(* and does nothing else: no fence wait or reset, no recording, no submit, *)
(* no present, no mesh taken, no buffer written, frame index unchanged.    *)
(***************************************************************************)
C8_AcquireFailureAbortsFrame ==
    [][ (log' # log /\ log' # <<>> /\ log'[1].op = "acquire_image_failed")
        => /\ Ops(log') = <<"acquire_image_failed", "rebuild_swapchain">>
           /\ render_pc' = "idle"
           /\ current_frame' = current_frame
           /\ frame_fences' = frame_fences
           /\ in_flight' = in_flight
           /\ batches' = batches
           /\ batch_keys' = batch_keys
           /\ panicked' = panicked ]_vars

\* A failed acquisition in a later frame, with a filled batch waiting to be
\* drawn and a submission in flight.
C8_Witness ==
    /\ log # <<>>
    /\ log[1].op = "acquire_image_failed"
    /\ current_frame > 0
    /\ in_flight # {}
    /\ batch_keys # <<>>
    /\ Len(batches[batch_keys[1]].batch_mesh.vertices) = 4

(***************************************************************************)
(* C9: a render call whose present fails rebuilds the swapchain, submits   *)
(* and presents once (no retry), advances the frame index by one and has   *)
(* given the slot's fence to the submission; the render call after it      *)
(* takes the normal path of acquire, record, submit and present.           *)
(***************************************************************************)
C9_PresentFailureDropsFrame ==
    [][ /\ (log' # log /\ OpCount(log', "present_surface_failed") > 0)
           => \A slot \in {current_frame % FramesInFlight} :
                /\ FrameOps(log') = NormalPath \o
                       <<"present_surface_failed", "destroy_framebuffer",
                         "rebuild_swapchain">>
                /\ OpCount(log', "submit") = 1
                /\ OpCount(log', "rebuild_swapchain") = 1
                /\ current_frame' = current_frame + 1
                /\ [slot |-> slot, fence |-> slot, frame |-> current_frame]
                       \in in_flight'
                /\ frame_fences'[slot] = "unsignaled"
                /\ render_pc' = "idle"
                /\ ~panicked'
        /\ (last_present = "failed" /\ render_pc = "wait" /\ render_pc' = "idle")
           => \A slot \in {current_frame % FramesInFlight} :
                /\ SubSeq(FrameOps(log'), 1, Len(NormalPath)) = NormalPath
                /\ FrameOps(log')[Len(NormalPath) + 1]
                       \in {"present_surface", "present_surface_failed"}
                /\ OpCount(log', "draw_indexed") = Len(batch_keys)
                /\ \A n \in DOMAIN log' :
                       log'[n].op \in {"wait_for_fence", "submit", "draw_indexed"}
                           => log'[n].slot = slot
                /\ current_frame' = current_frame + 1 ]_vars

\* The render call after a failed present has acquired its image and goes
\* on with a batch to draw.
C9_Witness ==
    /\ last_present = "failed"
    /\ render_pc = "wait"
    /\ current_frame > 0
    /\ batch_keys # <<>>
    /\ frame_fences[current_frame % FramesInFlight] = "signaled"

\* The image that the pixels of a create_gpu_texture call describe.
ImageOf(t) ==
    [y \in 0 .. (t.h - 1) |->
        [x \in 0 .. (t.w * ImageStride - 1) |->
            t.pixels[y * t.w * ImageStride + x + 1]]]

\* How often the device object g has been destroyed.
Destroyed(d, g) == Cardinality({n \in DOMAIN d : d[n] = g})

(***************************************************************************)
(* C10: a second create_gpu_texture call with an id in use and another     *)
(* width, height or pixels leaves one texture under the id, with the       *)
(* second call's width, height and image, and has destroyed the image,     *)
(* image view, sampler and memory of the first call exactly once each.     *)
(***************************************************************************)
C10_TextureReplaced ==
    [][ \A t \in {texture_copy} :
          (/\ CreateGpuTextureEnd
           /\ t.id \in DOMAIN textures
           /\ images[textures[t.id].image]
                  # ImageOf([w |-> t.tex.w, h |-> t.tex.h, pixels |-> t.pixels]))
          => \A old \in {textures[t.id]} :
               /\ DOMAIN textures' = DOMAIN textures
               /\ Cardinality({k \in DOMAIN textures' :
                                  textures'[k].id = t.id}) = 1
               /\ textures'[t.id].w = t.tex.w
               /\ textures'[t.id].h = t.tex.h
               /\ textures'[t.id].image = t.tex.image
               /\ textures'[t.id].image # old.image
               /\ images'[textures'[t.id].image]
                      = ImageOf([w |-> t.tex.w, h |-> t.tex.h, pixels |-> t.pixels])
               /\ old.image \notin DOMAIN images'
               /\ \A g \in {old.image, old.image_view, old.sampler, old.memory} :
                      /\ Destroyed(destroyed, g) = 0
                      /\ Destroyed(destroyed', g) = 1 ]_vars

\* The texture registered second is the 1 x 2 one, the first was drawn with
\* in a frame.
C10_Witness ==
    /\ TextureCreations = 2
    /\ current_frame = 1
    /\ 1 \in DOMAIN textures
    /\ textures[1].w = 1
    /\ textures[1].h = 2
    /\ Len(destroyed) = 8
    /\ log = <<>>

\* The bytes written by the update_buffer call e.
BytesOf(e) == e.offset .. (e.offset + e.len - 1)

\* The bytes of the region of frame slot j in a buffer with the given
\* frame stride.
RegionOf(j, stride) == (j * stride) .. ((j + 1) * stride - 1)

(***************************************************************************)
(* C11: for the uniform buffer and any frame stride > 0, update_buffer     *)
(* with frame index 0 writes only bytes of [0, stride) and with frame      *)
(* index 1 only bytes of [stride, 2 * stride): a write for one slot never  *)
(* changes a byte of the other slot's region.                              *)
(***************************************************************************)
C11_UniformWriteStaysInSlot ==
    \A n \in DOMAIN log :
        \A e \in {log[n]} :
            (e.op = "update_buffer" /\ e.buf = uniform_buffer[2]) =>
                /\ e.stride > 0
                /\ BytesOf(e) # {}
                /\ BytesOf(e) \subseteq RegionOf(e.slot, e.stride)
                /\ \A j \in Slots \ {e.slot} :
                       BytesOf(e) \cap RegionOf(j, e.stride) = {}

\* The uniform buffer of the program's uniform type has been written for
\* frame index 1 and then for frame index 0.
C11_Witness ==
    /\ Len(log) >= 4
    /\ log[1].op = "create_buffer"
    /\ log[1].stride = SizeOfUbo
    /\ log[3].op = "update_buffer" /\ log[3].slot = 1
    /\ log[3].offset = SizeOfUbo /\ log[3].len = SizeOfUbo
    /\ log[4].op = "update_buffer" /\ log[4].slot = 0
    /\ log[4].offset = 0

(***************************************************************************)
(* C12: after any sequence of process_commands calls every batch's mesh    *)
(* holds at most MAX_SPRITES * 4 vertices and MAX_SPRITES * 6 indices, so  *)
(* the data that render uploads for a batch is never longer than one frame *)
(* region of its vertex or index buffer.                                   *)
(***************************************************************************)
C12_BatchWithinCapacity ==
    /\ \A k \in DOMAIN batches :
        /\ Len(batches[k].batch_mesh.vertices) <= MAX_BATCH_VERTICES
        /\ Len(batches[k].batch_mesh.indices) <= MAX_BATCH_INDICES
    /\ \A n \in DOMAIN log :
        log[n].op = "update_buffer" => log[n].len <= log[n].stride

\* (transparency, layer, shader program id, texture id) of a batch.
BatchFields(b) ==
    <<b.transparency, b.layer, b.shader_program_id, b.tex_info[1]>>

(***************************************************************************)
(* C13: in every reachable state the batch map holds at most one batch per *)
(* key (no two entries hold batches with the same transparency, layer,     *)
(* shader program and texture), and every batch's own key, computed from   *)
(* these four fields, is the key it is stored under.                       *)
(***************************************************************************)
C13_BatchStoredUnderOwnKey ==
    \A k \in DOMAIN batches :
        \A f \in {BatchFields(batches[k])} :
            /\ gen_key(f[1], f[2], f[3], f[4]) = k
            /\ \A k2 \in DOMAIN batches :
                   BatchFields(batches[k2]) = f => k2 = k

\* Two batches are stored and have been reused by a later process_commands
\* call.
C13_Witness ==
    /\ AfterProcessCommands
    /\ current_frame > 0
    /\ Cardinality(DOMAIN batches) = 2
    /\ \E k \in DOMAIN batches : batches[k].layer = 2
    /\ \E k \in DOMAIN batches : batches[k].transparency = Transparent

\* The step is the part of a render call after acquire_image returned an
\* image, run to the end of the call.
RenderCompletes == render_pc = "wait" /\ render_pc' = "idle" /\ ~panicked'

\* The device calls the step appends to the log.
NewCalls == SubSeq(log', Len(log) + 1, Len(log'))

\* The calls that take one of the per-frame objects: the fence
\* (wait_for_fence, reset_fence, submit), the command pool
\* (reset_command_pool), the command buffer (begin_primary, finish, submit)
\* and the semaphore (submit, present_surface).
SlotOps ==
    {"wait_for_fence", "reset_fence", "reset_command_pool", "begin_primary",
     "finish", "submit"}

(***************************************************************************)
(* C14: every render call that acquires an image uses the fence, the       *)
(* semaphore, the command pool and the command buffer of slot              *)
(* current_frame mod 2 and then increases current_frame by exactly one;    *)
(* nothing else changes current_frame, so the frames that acquired an      *)
(* image use slots 0, 1, 0, 1, ... starting with slot 0.                   *)
(***************************************************************************)
C14_FrameSlotsAlternate ==
    [][ IF RenderCompletes
        THEN \A idx \in {current_frame % FramesInFlight} :
               /\ \A op \in SlotOps :
                      Cardinality({n \in DOMAIN NewCalls :
                          NewCalls[n].op = op /\ NewCalls[n].slot = idx}) = 1
               /\ Cardinality({n \in DOMAIN NewCalls :
                      /\ NewCalls[n].op \in {"present_surface",
                                             "present_surface_failed"}
                      /\ NewCalls[n].slot = idx}) = 1
               /\ \A n \in DOMAIN NewCalls : NewCalls[n].slot \in {idx, -1}
               /\ in_flight' \ in_flight =
                      {[slot |-> idx, fence |-> idx, frame |-> current_frame]}
               /\ current_frame = 0 => idx = 0
               /\ idx = 1 - ((current_frame + 1) % FramesInFlight)
               /\ current_frame' = current_frame + 1
        ELSE current_frame' = current_frame ]_vars

\* Three frames have acquired an image; the last used slot 0 again while
\* the frame before it, on slot 1, is still with the GPU.
C14_Witness ==
    /\ render_pc = "idle"
    /\ current_frame = 3
    /\ \E n \in DOMAIN log : log[n].op = "submit" /\ log[n].slot = 0
    /\ \E sub \in in_flight : sub.frame = 1 /\ sub.slot = 1
    /\ \E sub \in in_flight : sub.frame = 2 /\ sub.slot = 0

(***************************************************************************)
(* C15: resize(width, height) stores the new dimensions and rebuilds the   *)
(* swapchain in the same call: from the first resize on, in every state    *)
(* (so whenever a render call acquires an image) the swapchain is          *)
(* configured with the most recently supplied dimensions, and the          *)
(* viewport's width and height are the extent of that configuration.       *)
(***************************************************************************)
C15_SwapchainFollowsResize ==
    last_resize # NoExtent =>
        /\ dimensions = last_resize
        /\ swapchain # Unconfigured
        /\ swapchain.dimensions = last_resize
        /\ viewport = swapchain.extent

\* A render call has acquired an image after a frame was presented and the
\* window was then resized, on a surface that prescribes another extent.
C15_Witness ==
    /\ render_pc = "wait"
    /\ current_frame > 0
    /\ last_resize = <<2, 5>>
    /\ dimensions = <<2, 5>>
    /\ surface_extent = <<6, 6>>
    /\ swapchain = [dimensions |-> <<2, 5>>, extent |-> <<6, 6>>]
    /\ viewport = <<6, 6>>
    /\ log[1].op = "acquire_image"

\* Request c names a shader program that is not one of the registered
\* programs 0, 1, 2.
UnknownProgram(c) == c.shader_program_id \notin {0, 1, 2}

(***************************************************************************)
(* C16: process_commands given a request whose shader program is not one   *)
(* of the registered programs 0, 1, 2 ends in a panic, and no batch,       *)
(* buffer or descriptor set is created for that request's key: no batch is *)
(* stored under the key or for the program, and every buffer (four device  *)
(* objects per batch) and descriptor set that exists belongs to a stored   *)
(* batch.                                                                  *)
(***************************************************************************)
C16_UnknownProgramPanics ==
    (render_pc = "idle" /\ \E i \in DOMAIN commands : UnknownProgram(commands[i])) =>
        /\ panicked
        /\ \A i \in DOMAIN commands :
               UnknownProgram(commands[i]) =>
                   RenderCommandKey(commands[i]) \notin DOMAIN batches
        /\ \A k \in DOMAIN batches : ~UnknownProgram(batches[k])
        /\ next_handle = 3 + 4 * Cardinality(DOMAIN batches)
        /\ DOMAIN desc_allocated = {0, 1, 2}
        /\ \A p \in DOMAIN desc_allocated :
               desc_allocated[p] = Cardinality({k \in DOMAIN batches :
                                       batches[k].shader_program_id = p})

\* The list held a request of a registered program, whose batch was made by
\* this call before the panic, and one of an unknown program.
C16_Witness ==
    /\ panicked
    /\ commands = <<BadRequest, Cmd(Opaque, 2, 1, 1, QuadA)>>
    /\ current_frame = 0
    /\ DOMAIN batches = {RenderCommandKey(Cmd(Opaque, 2, 1, 1, QuadA))}
    /\ next_handle = 7

\* The texture coordinate f is the rational number n / d exactly.
IsFrac(f, n, d) ==
    /\ f \notin {FInf, FNaN}
    /\ d # 0
    /\ IF f[2] >= 0 THEN f[1] * (2 ^ f[2]) * d = n
       ELSE f[1] * d = n * (2 ^ (0 - f[2]))

\* The vertices and the indices that the last mesh call appended.
Appended ==
    [vertices |-> SubSeq(free_mesh.vertices,
                         Len(mesh_call.before.vertices) + 1,
                         Len(free_mesh.vertices)),
     indices |-> SubSeq(free_mesh.indices,
                        Len(mesh_call.before.indices) + 1,
                        Len(free_mesh.indices))]

\* The last mesh call left what the mesh held before it in place.
KeepsPrefix ==
    /\ SubSeq(free_mesh.vertices, 1, Len(mesh_call.before.vertices))
         = mesh_call.before.vertices
    /\ SubSeq(free_mesh.indices, 1, Len(mesh_call.before.indices))
         = mesh_call.before.indices

(***************************************************************************)
(* C17: add_quad appends exactly four vertices in the order tl, tr, br,    *)
(* bl, each with z = 0 and the given color, with UVs (0,0), (1,0), (1,1),  *)
(* (0,1) in that order, and the six indices base + [0,1,2,2,3,0] where     *)
(* base is the vertex count before the call; for an empty mesh and the     *)
(* corners bl=(0,0), br=(1,0), tl=(0,1), tr=(1,1) the indices are          *)
(* [0,1,2,2,3,0].                                                          *)
(***************************************************************************)
C17_AddQuadGeometry ==
    mesh_call.op = "add_quad" =>
        \A a \in {mesh_call.args}, new \in {Appended},
           base \in {Len(mesh_call.before.vertices)} :
            /\ KeepsPrefix
            /\ Len(new.vertices) = 4
            /\ [n \in 1 .. 4 |-> new.vertices[n].position]
                 = << <<a[3][1], a[3][2], 0>>, <<a[4][1], a[4][2], 0>>,
                      <<a[2][1], a[2][2], 0>>, <<a[1][1], a[1][2], 0>> >>
            /\ \A n \in 1 .. 4 : new.vertices[n].color = a[5]
            /\ \A n \in 1 .. 4 :
                 /\ IsFrac(new.vertices[n].uv[1], <<0, 1, 1, 0>>[n], 1)
                 /\ IsFrac(new.vertices[n].uv[2], <<0, 0, 1, 1>>[n], 1)
            /\ new.indices = << base, base + 1, base + 2,
                                base + 2, base + 3, base >>
            /\ (base = 0 /\ SubSeq(a, 1, 4)
                    = << <<0, 0>>, <<1, 0>>, <<0, 1>>, <<1, 1>> >>)
                 => free_mesh.indices = <<0, 1, 2, 2, 3, 0>>

\* A quad with four different corners has been added to a mesh that held
\* the unit quad.
C17_Witness ==
    /\ mesh_call.op = "add_quad"
    /\ mesh_call.args = <<QuadB.bl, QuadB.br, QuadB.tl, QuadB.tr, "red">>
    /\ Len(mesh_call.before.vertices) = 4
    /\ mesh_call.before.indices = <<0, 1, 2, 2, 3, 0>>
    /\ Len(free_mesh.vertices) = 8
    /\ free_mesh.indices[7] = 4

(***************************************************************************)
(* C18: for every atlas region (x, y, w, h) and atlas size W by H with     *)
(* W > 0 and H > 0, add_sprite emits the four UVs (x/W, y/H),              *)
(* (x/W + w/W, y/H), (x/W + w/W, y/H + h/H), (x/W, y/H + h/H) in that      *)
(* order; for region (16, 32, 8, 8) on a 128 by 128 atlas the UV rectangle *)
(* is (0.125, 0.25) to (0.1875, 0.3125).                                   *)
(***************************************************************************)
C18_AddSpriteUVs ==
    mesh_call.op = "add_sprite" =>
        \A a \in {mesh_call.args}, new \in {Appended} :
          \A r \in {a[6]}, W \in {a[7]}, H \in {a[8]} :
            (W > 0 /\ H > 0) =>
                /\ KeepsPrefix
                /\ Len(new.vertices) = 4
                /\ [n \in 1 .. 4 |-> new.vertices[n].uv] =
                      << <<FDiv(r.x, W), FDiv(r.y, H)>>,
                         <<FAdd(FDiv(r.x, W), FDiv(r.w, W)), FDiv(r.y, H)>>,
                         <<FAdd(FDiv(r.x, W), FDiv(r.w, W)),
                           FAdd(FDiv(r.y, H), FDiv(r.h, H))>>,
                         <<FDiv(r.x, W), FAdd(FDiv(r.y, H), FDiv(r.h, H))>> >>
                /\ (r = [x |-> 16, y |-> 32, w |-> 8, h |-> 8]
                      /\ W = 128 /\ H = 128)
                     => /\ IsFrac(new.vertices[1].uv[1], 125, 1000)
                        /\ IsFrac(new.vertices[1].uv[2], 25, 100)
                        /\ IsFrac(new.vertices[3].uv[1], 1875, 10000)
                        /\ IsFrac(new.vertices[3].uv[2], 3125, 10000)

\* The region (16, 32, 8, 8) of a 128 by 128 atlas has been added after a
\* sprite of an atlas that is not square, whose lower v, the rounded sum of
\* the rounded 2/7 and 1/7, is not the rounded 3/7.
C18_Witness ==
    /\ mesh_call.op = "add_sprite"
    /\ mesh_call.args[6] = [x |-> 16, y |-> 32, w |-> 8, h |-> 8]
    /\ mesh_call.args[7] = 128 /\ mesh_call.args[8] = 128
    /\ Len(mesh_call.before.vertices) = 4
    /\ mesh_call.before.vertices[3].uv[2] = FAdd(FDiv(2, 7), FDiv(1, 7))
    /\ mesh_call.before.vertices[3].uv[2] # FDiv(3, 7)
    /\ free_mesh.vertices[7].uv = << <<3, -4>>, <<5, -4>> >>

\* The byte ranges [o1, o1 + l1) and [o2, o2 + l2) have a byte in common.
Overlap(o1, l1, o2, l2) == l1 > 0 /\ l2 > 0 /\ o1 < o2 + l2 /\ o2 < o1 + l1

(***************************************************************************)
(* C19: while a GPU submission is unfinished, the CPU never writes a byte  *)
(* range of a buffer that the submission reads through its descriptor sets *)
(* or its vertex and index buffer bindings; this holds for the uniform     *)
(* buffer as bound by write_descriptor_sets as well as for the batch ring  *)
(* buffers.                                                                *)
(***************************************************************************)
C19_NoWriteUnderGpuRead ==
    \A n \in DOMAIN log :
        \A e \in {log[n]} :
            e.op = "update_buffer" =>
                \A j \in e.busy :
                    \A rd \in gpu_reads[j] :
                        ~(rd[1] = e.buf /\ Overlap(e.offset, e.len, rd[2], rd[3]))

(***************************************************************************)
(* C20: the draw calls recorded by a render call for frame slot i read     *)
(* their uniform data from slot i's region of the uniform buffer, which    *)
(* holds the values uploaded by that same render call, for i = 0 and       *)
(* i = 1.                                                                  *)
(***************************************************************************)
C20_DrawReadsOwnUniformSlot ==
    \A n \in DOMAIN log :
        \A e \in {log[n]} :
            e.op = "bind_graphics_descriptor_sets" =>
                /\ e.offset = e.slot * e.stride
                /\ \E m \in 1 .. (n - 1) :
                       /\ log[m].op = "update_buffer"
                       /\ log[m].buf = uniform_buffer[2]
                       /\ log[m].slot = e.slot
                       /\ log[m].offset = e.offset
                       /\ log[m].len = e.len

\* The calls of a render call that reset or reuse an object of a frame
\* slot: its fence, its command pool, its command buffer.
ReuseOps == {"reset_fence", "reset_command_pool", "begin_primary", "submit"}

(***************************************************************************)
(* C21: at every moment at most two submitted frames are unfinished on the *)
(* GPU and never two for the same slot: the fence, the command pool and    *)
(* the command buffer of slot i are reset and reused only when no          *)
(* submission made with slot i is unfinished.                              *)
(***************************************************************************)
C21_OneSubmissionPerSlot ==
    /\ Cardinality(in_flight) <= FramesInFlight
    /\ \A s1 \in in_flight, s2 \in in_flight : s1.slot = s2.slot => s1 = s2
    /\ \A n \in DOMAIN log :
           log[n].op \in ReuseOps => log[n].slot \notin log[n].busy

\* Slot 0 has been reused for a third frame while the second frame, on
\* slot 1, is unfinished.
C21_Witness ==
    /\ render_pc = "idle"
    /\ in_flight = {[slot |-> 1, fence |-> 1, frame |-> 1],
                    [slot |-> 0, fence |-> 0, frame |-> 2]}
    /\ \E n \in DOMAIN log :
           /\ log[n].op = "reset_command_pool"
           /\ log[n].slot = 0
           /\ log[n].busy = {1}

(***************************************************************************)
(* C22: in every render call that acquires an image, the present of that   *)
(* image waits on the semaphore of slot i that the same call's queue       *)
(* submission signals, so no image is presented before the command buffer  *)
(* that renders into it has finished: the present call follows the submit  *)
(* call with the same slot's semaphore, every present that still waits     *)
(* does so on the semaphore of its frame's unfinished submission, and no   *)
(* image has been taken early.                                             *)
(***************************************************************************)
C22_PresentWaitsForSubmission ==
    /\ ~presented_early
    /\ \A p \in present_queue :
        /\ p.semaphore = p.frame % FramesInFlight
        /\ \E sub \in in_flight :
               sub.frame = p.frame /\ sub.slot = p.semaphore
    /\ \A n \in DOMAIN log :
        log[n].op \in {"present_surface", "present_surface_failed"} =>
            \E m \in 1 .. (n - 1) :
                log[m].op = "submit" /\ log[m].slot = log[n].slot

\* Slot 0's semaphore is waited on for the second time, by the present of
\* the third frame, after the first frame's image was taken.
C22_Witness ==
    /\ current_frame = 3
    /\ last_present = "ok"
    /\ present_queue = {[frame |-> 2, semaphore |-> 0, image |-> TRUE]}
    /\ in_flight = {[slot |-> 0, fence |-> 0, frame |-> 2]}
    /\ frame_semaphores = [s \in Slots |-> "unsignaled"]

\* The calls that render_batch makes for one batch.
BatchOps ==
    {"take_mesh", "bind_graphics_pipeline", "bind_vertex_buffers",
     "bind_index_buffer", "bind_graphics_descriptor_sets", "draw_indexed"}

\* Call n of the log l belongs to the recording of a batch.
IsBatchCall(l, n) ==
    \/ l[n].op \in BatchOps
    \/ (l[n].op = "update_buffer" /\ l[n].buf # uniform_buffer[2])

(***************************************************************************)
(* C23: within one render call that acquires an image the steps happen in  *)
(* this order, each exactly once: acquire the image, wait on the slot's    *)
(* fence, reset the fence and the command pool, upload the uniform data,   *)
(* begin the command buffer and the render pass, record the batches, end   *)
(* the render pass and the command buffer, submit, present, destroy the    *)
(* framebuffer, advance the frame index (the frame index is still the old  *)
(* one while the call waits on the fence, and one more when it returns).   *)
(***************************************************************************)
C23_RenderStepOrder ==
    [][ /\ (render_pc = "idle" /\ render_pc' = "wait")
            => /\ Ops(log') = <<"acquire_image", "create_framebuffer">>
               /\ current_frame' = current_frame
        /\ RenderCompletes
            => /\ FrameOps(log') \in
                    { NormalPath \o <<"present_surface", "destroy_framebuffer">>,
                      NormalPath \o <<"present_surface_failed",
                                      "destroy_framebuffer",
                                      "rebuild_swapchain">> }
               /\ \E b \in DOMAIN log', e \in DOMAIN log' :
                    /\ log'[b].op = "begin_render_pass"
                    /\ log'[e].op = "end_render_pass"
                    /\ \A n \in DOMAIN log' :
                           IsBatchCall(log', n) <=> (b < n /\ n < e)
               /\ current_frame' = current_frame + 1 ]_vars

\* A render call that recorded two batches has returned after a failed
\* present.
C23_Witness ==
    /\ render_pc = "idle"
    /\ current_frame = 2
    /\ last_present = "failed"
    /\ OpCount(log, "draw_indexed") = 2
    /\ log[Len(log)].op = "rebuild_swapchain"
    /\ log[1].op = "acquire_image"

(***************************************************************************)
(* C24: if the GPU eventually completes every submitted command buffer,    *)
(* every fence wait in render eventually returns, whatever the mix of      *)
(* acquisition and presentation failures: each slot's fence starts         *)
(* signaled, and a fence that render has reset and that is still           *)
(* unsignaled when the call has returned belongs to a submission that is   *)
(* in flight.                                                              *)
(***************************************************************************)
C24_FenceWaitReturns ==
    /\ \A s \in Slots : frame_fences[s] = "signaled"
    /\ [](~panicked =>
            \A s \in Slots :
                frame_fences[s] = "unsignaled"
                    => \E sub \in in_flight : sub.fence = s)
    /\ (render_pc = "wait") ~> (render_pc = "idle")

\* The third frame's render call is blocked on the fence of slot 0, whose
\* submission is still in flight, after a failed present.
C24_Witness ==
    /\ render_pc = "wait"
    /\ current_frame = 2
    /\ frame_fences[0] = "unsignaled"
    /\ \E sub \in in_flight : sub.fence = 0
    /\ last_present = "failed"

\* The write e stays inside the region of frame slot j of its buffer.
InRegion(e, j) ==
    /\ j * e.stride <= e.offset
    /\ e.offset + e.len <= (j + 1) * e.stride

(***************************************************************************)
(* C25: a render call that returns has issued exactly one indexed draw per *)
(* entry of the batch key list, in list order, each with an index count    *)
(* equal to the number of indices the batch's mesh held, has uploaded the  *)
(* vertices and the indices of that mesh into the region of the frame's    *)
(* slot, and leaves the mesh of every drawn batch empty.                   *)
(***************************************************************************)
C25_OneDrawPerBatch ==
    [][ RenderCompletes =>
          LET frame_idx == current_frame % FramesInFlight
              draws == SelectSeq(NewCalls, LAMBDA e : e.op = "draw_indexed")
              uploads == SelectSeq(NewCalls, LAMBDA e :
                             e.op = "update_buffer" /\ e.buf # uniform_buffer[2])
          IN  /\ Len(draws) = Len(batch_keys)
              /\ Len(uploads) = 2 * Len(batch_keys)
              /\ \A i \in DOMAIN batch_keys :
                   \A b \in {batches[batch_keys[i]]} :
                     /\ draws[i].buf = batch_keys[i]
                     /\ draws[i].slot = frame_idx
                     /\ draws[i].len = Len(b.batch_mesh.indices)
                     /\ uploads[2 * i - 1].buf = b.vertex_buffer[2]
                     /\ uploads[2 * i - 1].len
                            = Len(b.batch_mesh.vertices) * SizeOfVertex
                     /\ InRegion(uploads[2 * i - 1], frame_idx)
                     /\ uploads[2 * i].buf = b.index_buffer[2]
                     /\ uploads[2 * i].len
                            = Len(b.batch_mesh.indices) * SizeOfIndex
                     /\ InRegion(uploads[2 * i], frame_idx)
                     /\ batches'[batch_keys[i]].batch_mesh = EmptyMesh ]_vars

\* The batches that use shader program p.
BatchesOf(bs, p) == {k \in DOMAIN bs : bs[k].shader_program_id = p}

(***************************************************************************)
(* C26: for every batch key a descriptor set is allocated and written      *)
(* exactly once, by the process_commands call that first sees the key: a   *)
(* step that adds a batch is a process_commands call with a request of     *)
(* that key, the new batch gets a set no other batch has, and no step of   *)
(* process_commands, render, resize or create_gpu_texture changes the set  *)
(* or the writes of a batch that exists, or allocates a set without        *)
(* adding a batch.                                                         *)
(***************************************************************************)
C26_DescriptorSetOncePerKey ==
    [][ /\ \A k \in DOMAIN batches :
            /\ k \in DOMAIN batches'
            /\ batches'[k].descriptor_set = batches[k].descriptor_set
            /\ batches'[k].descriptor_writes = batches[k].descriptor_writes
        /\ \A k \in DOMAIN batches' \ DOMAIN batches :
            /\ render_pc = "idle" /\ render_pc' = "idle" /\ log' = <<>>
            /\ \E i \in DOMAIN cmd_keys' : cmd_keys'[i] = k
            /\ batches'[k].descriptor_writes # <<>>
            /\ \A j \in DOMAIN batches' \ {k} :
                   batches'[j].descriptor_set # batches'[k].descriptor_set
        /\ ~panicked' =>
             \A p \in DOMAIN shader_programs :
                desc_allocated'[p] = Cardinality(BatchesOf(batches', p)) ]_vars

\* A batch of texture 1 made in an earlier frame has been reused by
\* process_commands after the texture was registered, the window was
\* resized and a frame was rendered.
C26_Witness ==
    /\ repeated = "yes"
    /\ log = <<>>
    /\ current_frame >= 1
    /\ last_resize # NoExtent
    /\ textures # <<>>
    /\ desc_allocated[1] = 1
    /\ \E k \in DOMAIN batches :
           /\ batches[k].shader_program_id = 1
           /\ batches[k].batch_mesh # EmptyMesh

(***************************************************************************)
(* C27: at every render call, for every batch it draws whose texture id    *)
(* has a registered texture, the image view and the sampler written into   *)
(* the batch's descriptor set and the atlas width and height the batch     *)
(* uses for sprite UVs are those of the texture registered under that id,  *)
(* whatever the order of the create_gpu_texture and process_commands       *)
(* calls before.                                                           *)
(***************************************************************************)
C27_BatchUsesCurrentTexture ==
    render_pc = "wait" =>
        \A i \in DOMAIN batch_keys :
            \A b \in {batches[batch_keys[i]]} :
                BatchTexId(b) \in DOMAIN textures =>
                    \A tex \in {textures[BatchTexId(b)]} :
                        /\ b.tex_info = <<tex.id, tex.w, tex.h>>
                        /\ \A n \in DOMAIN shader_programs[b.shader_program_id] :
                             shader_programs[b.shader_program_id][n] # "Uniform"
                               => \E w \in DOMAIN b.descriptor_writes :
                                     b.descriptor_writes[w].binding = n - 1
                        /\ \A w \in DOMAIN b.descriptor_writes :
                             /\ b.descriptor_writes[w].kind = "Image"
                                  => b.descriptor_writes[w].image_view
                                         = tex.image_view
                             /\ b.descriptor_writes[w].kind = "Sampler"
                                  => b.descriptor_writes[w].sampler = tex.sampler

(***************************************************************************)
(* C28: no operation short of the renderer's teardown removes a batch:     *)
(* over process_commands, render, resize, rebuild_swapchain and            *)
(* create_gpu_texture calls the set of keys in the batch map only grows, a *)
(* batch stays the one that was made for its key (same buffers and         *)
(* descriptor set), and a key that the requests of a frame leave out keeps *)
(* its batch.                                                              *)
(***************************************************************************)
C28_BatchesOnlyGrow ==
    [][ /\ DOMAIN batches \subseteq DOMAIN batches'
        /\ \A k \in DOMAIN batches :
            /\ batches'[k].vertex_buffer = batches[k].vertex_buffer
            /\ batches'[k].index_buffer = batches[k].index_buffer
            /\ batches'[k].descriptor_set = batches[k].descriptor_set
            /\ BatchFields(batches'[k]) = BatchFields(batches[k])
        /\ \A k \in DOMAIN batches :
            (\A i \in DOMAIN cmd_keys' : cmd_keys'[i] # k)
                => batches'[k] = batches[k] ]_vars

\* Two batches exist after a frame was rendered and the window resized;
\* the last process_commands call had no request for one of them.
C28_Witness ==
    /\ Cardinality(DOMAIN batches) = 2
    /\ current_frame >= 1
    /\ last_resize # NoExtent
    /\ textures # <<>>
    /\ log = <<>>
    /\ repeated # "never"
    /\ \E k \in DOMAIN batches : \A i \in DOMAIN cmd_keys : cmd_keys[i] # k

(***************************************************************************)
(* C29: over any interleaving of tick callbacks and render callbacks of    *)
(* the window loop, every request passed to process_commands in a render   *)
(* callback was pushed in that loop iteration: no request is passed to     *)
(* process_commands in two different render callbacks.                     *)
(***************************************************************************)
C29_RequestsMadeForFrame ==
    /\ commands = RenderStateCommands(game_commands)
    /\ \A i \in DOMAIN game_commands : game_commands[i].made = iteration

(***************************************************************************)
(* C30: the framebuffer that render creates for a frame is destroyed only  *)
(* after the GPU has finished executing that frame's command buffer, whose *)
(* render pass references it: while a frame's submission is unfinished,    *)
(* its framebuffer exists.                                                 *)
(***************************************************************************)
C30_FramebufferOutlivesSubmission ==
    \A sub \in in_flight : sub.frame \in live_framebuffers

\* The position of the only call with operation op in the calls l, 0 when
\* there is none or more than one.
At(l, op) ==
    IF Cardinality({n \in DOMAIN l : l[n].op = op}) = 1
    THEN CHOOSE n \in DOMAIN l : l[n].op = op
    ELSE 0

\* The calls in which the CPU thread waits for work of the GPU.
BlockingOps == {"wait_for_fence", "wait_idle"}

\* The waits of render and of the renderer's drop: a wait in the last
\* operation's calls is render's wait on the fence of a frame slot or the
\* drop's wait_idle, one per call; process_commands, resize, a render whose
\* acquisition fails and rebuild_swapchain make none.
WaitsOfRenderAndDrop ==
    \A n \in DOMAIN log :
        log[n].op \in BlockingOps =>
            \/ /\ log[n].op = "wait_for_fence"
               /\ log[n].slot \in Slots
               /\ log[1].op = "acquire_image"
               /\ OpCount(log, "wait_for_fence") = 1
            \/ /\ log[n].op = "wait_idle"
               /\ render_pc \in {"wait_idle", "dropped"}
               /\ OpCount(log, "wait_idle") = 1

(***************************************************************************)
(* C31 as stated: the CPU thread waits for the GPU only in render's wait   *)
(* on the frame slot's fence and in the drop's wait_idle; in particular    *)
(* create_gpu_texture makes no such wait.                                  *)
(***************************************************************************)
C31_WaitsOnlyInRenderAndDrop ==
    /\ WaitsOfRenderAndDrop
    /\ \A n \in DOMAIN texture_calls : texture_calls[n].op \notin BlockingOps

(***************************************************************************)
(* C31, amended: the CPU thread waits for the GPU in render's wait on the  *)
(* frame slot's fence, in the drop's wait_idle, and in create_gpu_texture, *)
(* which waits once on the fence of its copy right after submitting it;    *)
(* process_commands, resize and rebuild_swapchain never wait.              *)
(***************************************************************************)
C31_WaitingPoints ==
    /\ WaitsOfRenderAndDrop
    /\ render_pc = "copy_wait" =>
          /\ texture_copy.state # "none"
          /\ At(texture_calls, "submit_without_semaphores") = Len(texture_calls)
          /\ \A n \in DOMAIN texture_calls :
                 texture_calls[n].op \notin BlockingOps
    /\ (texture_calls # <<>> /\ render_pc # "copy_wait") =>
          \E w \in DOMAIN texture_calls :
              /\ texture_calls[w].op = "wait_for_fence"
              /\ texture_calls[w].slot \notin Slots
              /\ texture_calls[w - 1].op = "submit_without_semaphores"
              /\ \A n \in DOMAIN texture_calls \ {w} :
                     texture_calls[n].op \notin BlockingOps

\* A texture was registered, the window resized, a frame rendered, and the
\* renderer has been dropped.
C31_Witness ==
    /\ render_pc = "dropped"
    /\ OpCount(log, "wait_idle") = 1
    /\ OpCount(texture_calls, "wait_for_fence") = 1
    /\ current_frame >= 1
    /\ last_resize # NoExtent

(***************************************************************************)
(* C32: for each shader program the number of descriptor sets allocated    *)
(* from its pool equals the number of batches created with that program    *)
(* and never exceeds MAX_DESCRIPTOR_SETS = 512; when descriptor set         *)
(* allocation fails, create_render_batch ends the process and never        *)
(* returns Err, so every return of create_render_batch is Ok(key) with a   *)
(* batch stored under key.                                                 *)
(***************************************************************************)
C32_DescriptorPoolBound ==
    [][ /\ \A p \in DOMAIN shader_programs :
            /\ desc_allocated'[p] = Cardinality(BatchesOf(batches', p))
            /\ desc_allocated'[p] <= MAX_DESCRIPTOR_SETS
        /\ OpCount(log', "allocate_set_failed") > 0 => panicked'
        /\ ~panicked' =>
             \A i \in DOMAIN cmd_keys' : cmd_keys'[i] \in DOMAIN batches' ]_vars

\* The sets of a pool number the batches of its program; a failed
\* allocation ends the process, and it is the only thing that does in a
\* call whose requests name registered programs; a call that returns has
\* a batch under every key of its list.
PoolCountsAndFatalFailure ==
    [][ /\ \A p \in DOMAIN shader_programs :
            desc_allocated'[p] = Cardinality(BatchesOf(batches', p))
        /\ panicked' <=> OpCount(log', "allocate_set_failed") > 0
        /\ ~panicked' =>
             \A i \in DOMAIN cmd_keys' : cmd_keys'[i] \in DOMAIN batches' ]_vars

\* More sets are taken from the pool of program 1 than it was created for,
\* and the process goes on.
PoolOverdrawn ==
    /\ desc_allocated[1] > MAX_DESCRIPTOR_SETS
    /\ ~panicked

(***************************************************************************)
(* C33: every update_buffer call that maps the buffer memory unmaps it     *)
(* before the call ends, on every path, also when the copy or the flush of *)
(* the mapped range fails: after a call, however it ended, no memory is    *)
(* mapped.                                                                 *)
(***************************************************************************)
C33_MappingReleased ==
    /\ mapped = {}
    /\ OpCount(log, "map_memory") = OpCount(log, "unmap_memory")

(***************************************************************************)
(* C34: create_gpu_texture records, in this order, the barrier Undefined   *)
(* to TransferDstOptimal, the buffer-to-image copy and the barrier         *)
(* TransferDstOptimal to ShaderReadOnlyOptimal, each once and with nothing *)
(* between them; it destroys the copy fence, the staging buffer and its    *)
(* memory only after the wait on the copy fence has returned, and inserts  *)
(* the texture into the map only after that.                               *)
(***************************************************************************)
C34_TextureUploadOrder ==
    /\ texture_copy.state # "none" =>
          /\ At(texture_calls, "submit_without_semaphores") = Len(texture_calls)
          /\ texture_copy.tex.image \notin
                 {textures[id].image : id \in DOMAIN textures}
    /\ (texture_calls # <<>> /\ texture_copy.state = "none") =>
        \A c \in {texture_calls} :
            /\ At(c, "barrier_Undefined_TransferDstOptimal") > At(c, "begin_primary")
            /\ At(c, "begin_primary") > 0
            /\ At(c, "copy_buffer_to_image")
                 = At(c, "barrier_Undefined_TransferDstOptimal") + 1
            /\ At(c, "barrier_TransferDstOptimal_ShaderReadOnlyOptimal")
                 = At(c, "copy_buffer_to_image") + 1
            /\ At(c, "finish")
                 > At(c, "barrier_TransferDstOptimal_ShaderReadOnlyOptimal")
            /\ At(c, "submit_without_semaphores") > At(c, "finish")
            /\ At(c, "wait_for_fence") > At(c, "submit_without_semaphores")
            /\ At(c, "destroy_fence") > At(c, "wait_for_fence")
            /\ At(c, "destroy_buffer") > At(c, "wait_for_fence")
            /\ At(c, "free_memory") > At(c, "wait_for_fence")
            /\ c[At(c, "destroy_buffer")].buf = c[At(c, "copy_buffer_to_image")].buf
            /\ c[At(c, "free_memory")].buf = MemoryOf(c[At(c, "destroy_buffer")].buf)
            /\ At(c, "textures_insert") > At(c, "destroy_fence")
            /\ At(c, "textures_insert") > At(c, "destroy_buffer")
            /\ At(c, "textures_insert") > At(c, "free_memory")
            /\ \E id \in DOMAIN textures :
                   textures[id].image = c[At(c, "textures_insert")].buf

\* A second texture has been registered under the id of the first: the
\* calls are those of the second registration, which dropped the first.
C34_Witness ==
    /\ texture_calls # <<>>
    /\ At(texture_calls, "wait_for_fence") > 0
    /\ \E n \in DOMAIN texture_calls : texture_calls[n].op = "drop"
    /\ textures # <<>>

\* The calls that destroy or free a device object.
DestroyOps ==
    {"destroy_image", "destroy_image_view", "destroy_sampler", "free_memory",
     "destroy_shader_module", "destroy_graphics_pipeline",
     "destroy_pipeline_layout", "destroy_descriptor_set_layout",
     "descriptor_pool_reset", "destroy_descriptor_pool", "destroy_buffer",
     "destroy_render_pass", "destroy_semaphore", "destroy_fence",
     "command_pool_reset", "destroy_command_pool"}

(***************************************************************************)
(* C35: when the renderer is dropped it waits for the device to be idle    *)
(* before it destroys a resource that a submitted frame may still use: no  *)
(* texture, program, batch buffer, uniform buffer, render pass, semaphore, *)
(* fence or command pool is destroyed ahead of the wait while a submission *)
(* is still in flight.                                                     *)
(***************************************************************************)
C35_DropWaitsBeforeDestroy ==
    render_pc \in {"wait_idle", "dropped"} =>
        \A n \in DOMAIN log :
            log[n].op \in DestroyOps =>
                \/ log[n].busy = {}
                \/ \E w \in 1 .. (n - 1) : log[w].op = "wait_idle"

(***************************************************************************)
(* C36: after n add_quad and add_sprite calls on a mesh since it was last  *)
(* cleared, the mesh has exactly 4n vertices and 6n indices, the indices   *)
(* of the k-th call (k from 0) are 4k + [0,1,2,2,3,0], and every index is  *)
(* smaller than the vertex count.                                          *)
(***************************************************************************)
C36_MeshCounts ==
    \A n \in {CallsSinceClear(mesh_call)} :
        /\ Len(free_mesh.vertices) = 4 * n
        /\ Len(free_mesh.indices) = 6 * n
        /\ \A k \in 0 .. n - 1 :
              SubSeq(free_mesh.indices, 6 * k + 1, 6 * k + 6)
                = <<4 * k, 4 * k + 1, 4 * k + 2, 4 * k + 2, 4 * k + 3, 4 * k>>
        /\ \A i \in DOMAIN free_mesh.indices :
              free_mesh.indices[i] < Len(free_mesh.vertices)

\* Two calls, one of each kind, were made on a mesh that held a quad
\* before it was cleared.
C36_Witness ==
    /\ WasCleared(mesh_call)
    /\ CallsSinceClear(mesh_call) = 2
    /\ mesh_call.op = "add_sprite"
    /\ Len(mesh_call.before.vertices) = 4
    /\ mesh_call.before.vertices[1].uv = <<FZero, FZero>>
    /\ Len(free_mesh.indices) = 12

(***************************************************************************)
(* C37: for every width w >= 1, height h >= 1 and power-of-two pitch       *)
(* alignment a, the row pitch of create_gpu_texture is the smallest        *)
(* multiple of a that is at least w*4; row y is copied to staging offset   *)
(* y*row_pitch with length w*4, so rows do not overlap and every written   *)
(* byte lies inside the staging buffer of h*row_pitch bytes.               *)
(***************************************************************************)
C37_RowPitchCoversRows ==
    (pure_call.op = "create_gpu_texture" /\ ~pure_call.out.panicked) =>
        \A c \in {pure_call}, row \in {WideMul(Wide(pure_call.w), ImageStride)} :
            /\ c.out.row_pitch[2] % c.alignment = 0
            /\ WideLeq(row, c.out.row_pitch)
            /\ ~WideLeq(WideAdd(row, Wide(c.alignment)), c.out.row_pitch)
            /\ c.out.upload_size = WideMul(c.out.row_pitch, c.h)
            /\ \A y \in 1 .. c.h :
                  /\ c.out.rows[y].offset = WideMul(c.out.row_pitch, y - 1)
                  /\ c.out.rows[y].len = row
                  /\ WideLeq(WideAdd(c.out.rows[y].offset, row),
                             c.out.upload_size)
                  /\ y < c.h =>
                        WideLeq(WideAdd(c.out.rows[y].offset, row),
                                c.out.rows[y + 1].offset)

\* The ids of the memory types that qualify for the last create_buffer call:
\* the bit of the id is set in the type mask and the type has every
\* requested property flag.
Qualifying ==
    {id \in 0 .. Len(pure_call.memory_types) - 1 :
        /\ id \in {b \in 0 .. MaxMemoryTypes + 1 :
                      (pure_call.type_mask \div (2 ^ b)) % 2 = 1}
        /\ \A flag \in {1, 2, 4} :
              BitAnd(pure_call.properties, flag) = flag =>
                  BitAnd(pure_call.memory_types[id + 1], flag) = flag}

(***************************************************************************)
(* C38: for every list of memory types, type mask and requested property   *)
(* flags, create_buffer allocates from the lowest-index memory type whose  *)
(* bit is set in the buffer's type mask and whose properties contain all   *)
(* requested flags; when no memory type qualifies it terminates the        *)
(* process and returns no buffer or memory.                                *)
(***************************************************************************)
C38_LowestQualifyingType ==
    (pure_call.op = "create_buffer" /\ pure_call.buffer_len # 0) =>
        \A out \in {pure_call.out} :
            IF Qualifying = {}
            THEN /\ out.panicked
                 /\ out.returned = <<>>
                 /\ \A n \in DOMAIN out.calls :
                       out.calls[n].op # "allocate_memory"
            ELSE /\ ~out.panicked
                 /\ out.returned = <<1, 2>>
                 /\ \E n \in DOMAIN out.calls :
                       /\ out.calls[n].op = "allocate_memory"
                       /\ out.calls[n].arg \in Qualifying
                       /\ \A id \in Qualifying : out.calls[n].arg <= id
                 /\ Cardinality({n \in DOMAIN out.calls :
                        out.calls[n].op = "allocate_memory"}) = 1

\* Type 0 lacks the requested flag, type 1 has it but is not in the mask,
\* type 2 qualifies and was chosen.
C38_Witness ==
    /\ pure_call.op = "create_buffer"
    /\ pure_call.memory_types = <<1, 6, 6>>
    /\ pure_call.type_mask = 5
    /\ pure_call.properties = 2
    /\ ~pure_call.out.panicked
    /\ pure_call.out.calls[3] = [op |-> "allocate_memory", arg |-> 2]

(***************************************************************************)
(* C39: ClickableSystem writes an OnClickedEvent for an entity exactly in  *)
(* a run where the cursor is over the entity, the left mouse button is     *)
(* held and the entity's state was not already Clicked; while the cursor   *)
(* stays over the entity with the button held across consecutive runs,     *)
(* exactly one event is written, and another is written only after the     *)
(* state has left Clicked.                                                 *)
(***************************************************************************)
C39_OneClickPerPress ==
    click_run.op = "run" =>
      /\ \A n \in DOMAIN click_run.events :
             /\ click_run.events[n].id \in DOMAIN click_run.before
             /\ click_run.events[n] =
                    EntityAt(generation, click_run.events[n].id)
      /\ \A id \in DOMAIN click_run.before :
           \A ent \in {EntityAt(generation, id)} :
             \A written \in {Cardinality({n \in DOMAIN click_run.events :
                                             click_run.events[n] = ent})} :
                 /\ written = IF /\ id \in click_run.cursor_hit_ents
                                 /\ click_run.held
                                 /\ click_run.before[id] # "Clicked"
                              THEN 1 ELSE 0
                 /\ (id \in click_run.cursor_hit_ents /\ click_run.held) =>
                       (streak_events[ent] = 1 /\ clickables[id] = "Clicked")
                 /\ written = 1 => click_run.before[id] # "Clicked"

\* The cursor stayed over the entity of index 1 with the button held in a
\* second run in a row: nothing was written for it, while the entity of
\* index 2, which the cursor reached in this run, got its event.  The
\* entity of index 1 is the second of that index: it was built while the
\* button was held over the index, after the first had got its event.
C39_Witness ==
    /\ click_run.op = "run"
    /\ click_run.cursor_hit_ents = {1, 2}
    /\ click_run.held
    /\ {1, 2} \subseteq DOMAIN click_run.before
    /\ click_run.before[1] = "Clicked"
    /\ click_run.before[2] = "Normal"
    /\ click_run.events = <<EntityAt(generation, 2)>>
    /\ generation[1] = 2
    /\ streak_events[EntityAt(generation, 1)] = 1
    /\ streak_events[EntityAt(generation, 2)] = 1
    /\ index_events[1] = 2

\* The step of the time of day from one TimeState to the next: 0 when it
\* stayed, 1 when it moved to the next of the cycle Morning, Afternoon,
\* Night, Morning, and 2 otherwise.
CycleStep(from, to) ==
    IF to = from THEN 0
    ELSE IF <<from, to>> \in {<<"Morning", "Afternoon">>,
                              <<"Afternoon", "Night">>,
                              <<"Night", "Morning">>}
         THEN 1 ELSE 2

(***************************************************************************)
(* C40: starting from hours_passed in 0..3, processing any sequence of     *)
(* ProgressTime events whose hours are in 0..3 keeps hours_passed in 0..3  *)
(* after every event; each event advances the time of day by at most one   *)
(* step of the cycle Morning, Afternoon, Night, Morning, and the day       *)
(* counter increases by exactly one exactly when that step is Night to     *)
(* Morning.                                                                *)
(***************************************************************************)
C40_ClockSteps ==
    /\ time.hours_passed \in 0 .. 3
    /\ \A states \in {<<time_run.before>> \o time_run.trace} :
          \A i \in 1 .. Len(time_run.trace) :
              /\ states[i + 1].hours_passed \in 0 .. 3
              /\ CycleStep(states[i].time_of_day,
                           states[i + 1].time_of_day) \in {0, 1}
              /\ IF /\ states[i].time_of_day = "Night"
                    /\ states[i + 1].time_of_day = "Morning"
                 THEN states[i + 1].day = states[i].day + 1
                 ELSE states[i + 1].day = states[i].day

\* A run read two events that each moved the time of day on, the second
\* from Night to Morning, which started day 2.
C40_Witness ==
    /\ time_run.before = [day |-> 1, time_of_day |-> "Afternoon",
                          hours_passed |-> 3]
    /\ time_run.events = <<[kind |-> "ProgressTime", hours |-> 3],
                           [kind |-> "ProgressTime", hours |-> 2]>>
    /\ time = [day |-> 2, time_of_day |-> "Morning", hours_passed |-> 0]
    /\ time_run.written[1] = [kind |-> "NewDayStarted", day |-> 2]

====
